---- MODULE Spec2Model ----
(***************************************************************************)
(* StockSage sentiment subsystem:                                          *)
(*   src/src/stocksage/tools/sentiment_analysis_tool.py                    *)
(*   src/src/tradesymphony/tools/finance_tools.py (the parallel copy)      *)
(*                                                                         *)
(* Python strings are TLA+ strings; an Optional[str] is a tagged record;   *)
(* Python values whose dynamic type matters (the entries of a JSON         *)
(* payload) carry a type tag.  Scores are integers in thousandths.         *)
(***************************************************************************)
EXTENDS Integers, Sequences, FiniteSets, TLC

VARIABLES
  serper_api_key,  \* self.serper_api_key of the tool instance
  lexicon,         \* the polarity lexicon of the external estimator (TextBlob)
  today,           \* the wall clock, as the proleptic Gregorian day ordinal
  pc,              \* position of the current _run call
  args,            \* (ticker, days, search_query) of the current call
  request,         \* the HTTP request the current call has sent
  response,        \* the outcome of requests.post for the current call
  news_items,      \* what fetch_stock_news returned to the current call
  result,          \* what the current call gave its caller
  last,            \* what the caller observed from the previous identical call
  posts,           \* how many times the current call has called requests.post
  twin,            \* the tradesymphony tool instance, called in step with the same arguments
  call,            \* pure-function harness: the function applied and its inputs
  ret,             \* pure-function harness: the value returned
  frames,          \* concurrent calls: the local variables of each _run in progress
  calls,           \* concurrent calls: what each caller passed and what its request got
  av_key,          \* batch: the Alpha Vantage key read from the environment
  finnhub_key,     \* batch: the Finnhub key read from the environment
  semaphore_av,    \* batch: the permits left in asyncio.Semaphore(5)
  semaphore_finnhub, \* batch: the permits left in asyncio.Semaphore(30)
  symbols,         \* batch: the list of symbols to analyse
  tasks,           \* batch: the process_stock coroutine of each symbol
  all_results,     \* batch: the rows collected by analyze_us_stocks_async
  awaited,         \* batch: the tasks whose result the collecting loop has taken
  batch_pc,        \* batch: position of analyze_us_stocks_async
  load             \* batch at full size: how many tasks are at each position

toolVars == <<serper_api_key, lexicon, today, pc, args, request, response, news_items, result, last, posts, twin>>
pureVars == <<call, ret>>
parVars == <<frames, calls>>
batchVars == <<av_key, finnhub_key, semaphore_av, semaphore_finnhub, symbols, tasks, all_results, awaited,
               batch_pc, load>>
vars == <<toolVars, pureVars, parVars, batchVars>>

---------------------------------------------------------------------------
(* Python values *)

\* Optional[str]: None or a str
None == [isNone |-> TRUE, text |-> ""]
Str(s) == [isNone |-> FALSE, text |-> s]
\* truthiness of an Optional[str] (`if search_query`)
Truthy(q) == ~q.isNone /\ q.text # ""

\* a dict with str values, a bare str, a list, a number
Dict(f) == [type |-> "dict", fields |-> f]
StrVal(s) == [type |-> "str", text |-> s]
List(xs) == [type |-> "list", items |-> xs]
IntVal(n) == [type |-> "int", n |-> n]

\* dict.get(key, default)
Get(d, key, default) == IF key \in DOMAIN d.fields THEN d.fields[key] ELSE default

LowerChar(c) ==
  CASE c = "A" -> "a" [] c = "B" -> "b" [] c = "C" -> "c" [] c = "D" -> "d"
    [] c = "E" -> "e" [] c = "F" -> "f" [] c = "G" -> "g" [] c = "H" -> "h"
    [] c = "I" -> "i" [] c = "J" -> "j" [] c = "K" -> "k" [] c = "L" -> "l"
    [] c = "M" -> "m" [] c = "N" -> "n" [] c = "O" -> "o" [] c = "P" -> "p"
    [] c = "Q" -> "q" [] c = "R" -> "r" [] c = "S" -> "s" [] c = "T" -> "t"
    [] c = "U" -> "u" [] c = "V" -> "v" [] c = "W" -> "w" [] c = "X" -> "x"
    [] c = "Y" -> "y" [] c = "Z" -> "z" [] OTHER -> c

\* str.lower(), character by character (split in halves to keep recursion shallow)
RECURSIVE Lower(_)
Lower(s) ==
  IF Len(s) = 0 THEN ""
  ELSE IF Len(s) = 1 THEN LowerChar(s)
  ELSE Lower(SubSeq(s, 1, Len(s) \div 2)) \o Lower(SubSeq(s, Len(s) \div 2 + 1, Len(s)))

\* `sub in s` on strings
Contains(s, sub) ==
  \E i \in 1..(Len(s) - Len(sub) + 1) : SubSeq(s, i, i + Len(sub) - 1) = sub

---------------------------------------------------------------------------
(* Company Directory *)

company_names ==
  [AAPL |-> "Apple Inc.", MSFT |-> "Microsoft Corporation",
   AMZN |-> "Amazon.com, Inc.", GOOGL |-> "Alphabet Inc. (Google)",
   META |-> "Meta Platforms, Inc.", TSLA |-> "Tesla, Inc.",
   NVDA |-> "NVIDIA Corporation", JPM |-> "JPMorgan Chase & Co.",
   V |-> "Visa Inc.", MA |-> "Mastercard Incorporated",
   PYPL |-> "PayPal Holdings, Inc.", DIS |-> "The Walt Disney Company",
   NFLX |-> "Netflix, Inc.", INTC |-> "Intel Corporation",
   AMD |-> "Advanced Micro Devices, Inc.",
   IBM |-> "International Business Machines Corporation",
   CSCO |-> "Cisco Systems, Inc.", ADBE |-> "Adobe Inc.",
   CRM |-> "Salesforce, Inc.", ORCL |-> "Oracle Corporation"]

get_company_name_for_ticker(ticker) ==
  IF ticker \in DOMAIN company_names
    THEN company_names[ticker]
    ELSE ticker \o " Corporation"

company_info ==
  [AAPL |-> [name |-> "Apple Inc.", industry |-> "Technology/Consumer Electronics"],
   MSFT |-> [name |-> "Microsoft Corporation", industry |-> "Technology/Software"],
   AMZN |-> [name |-> "Amazon.com, Inc.", industry |-> "E-commerce/Cloud Computing"],
   GOOGL |-> [name |-> "Alphabet Inc.", industry |-> "Technology/Internet Services"],
   GOOG |-> [name |-> "Alphabet Inc.", industry |-> "Technology/Internet Services"],
   META |-> [name |-> "Meta Platforms, Inc.", industry |-> "Technology/Social Media"],
   TSLA |-> [name |-> "Tesla, Inc.", industry |-> "Automotive/Clean Energy"],
   NVDA |-> [name |-> "NVIDIA Corporation", industry |-> "Technology/Semiconductors"],
   JPM |-> [name |-> "JPMorgan Chase & Co.", industry |-> "Financial Services"],
   V |-> [name |-> "Visa Inc.", industry |-> "Financial Services/Payments"]]

\* company_info.get(ticker, {}).get("name", f"{ticker} Corporation")
fallback_company_name(ticker) ==
  IF ticker \in DOMAIN company_info
    THEN company_info[ticker].name
    ELSE ticker \o " Corporation"

\* company_info.get(ticker, {}).get("industry", "Technology")
fallback_industry(ticker) ==
  IF ticker \in DOMAIN company_info
    THEN company_info[ticker].industry
    ELSE "Technology"

---------------------------------------------------------------------------
(* Fallback News Generator *)

product_headlines(company_name, ticker, industry) ==
  << company_name \o " (" \o ticker \o ") Launches New Product Line to Strong Reviews",
     "Customer Satisfaction High for " \o company_name \o "'s (" \o ticker \o ") Latest Products",
     "Product Innovation Drives Growth at " \o company_name \o " (" \o ticker \o ")",
     "Market Reception Positive for " \o company_name \o "'s (" \o ticker \o ") Product Strategy",
     company_name \o " (" \o ticker \o ") Product Portfolio Expands in " \o industry \o " Sector" >>

leadership_headlines(company_name, ticker, industry) ==
  << company_name \o " (" \o ticker \o ") CEO Outlines Vision for Company Growth",
     "Leadership Changes at " \o company_name \o " (" \o ticker \o ") Seen as Positive by Analysts",
     company_name \o " (" \o ticker \o ") Executive Team Receives Industry Recognition",
     "CEO of " \o company_name \o " (" \o ticker \o ") Speaks at Industry Conference on Innovation",
     "Leadership Strategy at " \o company_name \o " (" \o ticker \o ") Focuses on Sustainable Growth" >>

social_headlines(company_name, ticker, industry) ==
  << company_name \o " (" \o ticker \o ") Trending on Social Media After Recent Announcement",
     "Social Media Sentiment Strong for " \o company_name \o " (" \o ticker \o ")",
     company_name \o " (" \o ticker \o ") Social Media Campaign Receives Positive Engagement",
     "Online Presence Growing for " \o company_name \o " (" \o ticker \o ") in " \o industry \o " Space",
     "Social Media Influencers Praise " \o company_name \o "'s (" \o ticker \o ") Latest Initiative" >>

\* the generic templates with the ticker left out of the fourth
financial_headlines_ticker_dropped(company_name, ticker, industry) ==
  << company_name \o " (" \o ticker \o ") Reports Quarterly Earnings Above Expectations",
     "Analysts Raise Price Target for " \o company_name \o " (" \o ticker \o ") Citing Strong Growth",
     company_name \o " (" \o ticker \o ") Expands Market Share in " \o industry \o " Sector",
     "Market Trends Favorable for " \o company_name \o " This Quarter",
     "Investors React to " \o company_name \o "'s (" \o ticker \o ") Latest Strategic Announcements" >>

financial_headlines(company_name, ticker, industry) ==
  << company_name \o " (" \o ticker \o ") Reports Quarterly Earnings Above Expectations",
     "Analysts Raise Price Target for " \o company_name \o " (" \o ticker \o ") Citing Strong Growth",
     company_name \o " (" \o ticker \o ") Expands Market Share in " \o industry \o " Sector",
     "Market Trends Favorable for " \o company_name \o " (" \o ticker \o ") This Quarter",
     "Investors React to " \o company_name \o "'s (" \o ticker \o ") Latest Strategic Announcements" >>

\* the chain with its first two tests exchanged
fallback_headlines_leadership_first(ticker, search_query) ==
  LET company_name == fallback_company_name(ticker)
      industry == fallback_industry(ticker)
      q == Lower(search_query.text)
  IN  IF Truthy(search_query) /\ (Contains(q, "ceo") \/ Contains(q, "leadership"))
        THEN leadership_headlines(company_name, ticker, industry)
      ELSE IF Truthy(search_query) /\ Contains(q, "product")
        THEN product_headlines(company_name, ticker, industry)
      ELSE IF Truthy(search_query) /\ Contains(q, "social")
        THEN social_headlines(company_name, ticker, industry)
      ELSE financial_headlines(company_name, ticker, industry)

\* the if / elif / elif / else chain on search_query
fallback_headlines(ticker, search_query) ==
  LET company_name == fallback_company_name(ticker)
      industry == fallback_industry(ticker)
      q == Lower(search_query.text)
  IN  IF Truthy(search_query) /\ Contains(q, "product")
        THEN product_headlines(company_name, ticker, industry)
      ELSE IF Truthy(search_query) /\ (Contains(q, "ceo") \/ Contains(q, "leadership"))
        THEN leadership_headlines(company_name, ticker, industry)
      ELSE IF Truthy(search_query) /\ Contains(q, "social")
        THEN social_headlines(company_name, ticker, industry)
      ELSE financial_headlines(company_name, ticker, industry)

sources == <<"Bloomberg", "CNBC", "Wall Street Journal", "Reuters", "Financial Times">>

\* one entry of news_items; i is enumerate's index, from 0
fallback_item(ticker, search_query, i, headline) ==
  LET company_name == fallback_company_name(ticker)
      industry == fallback_industry(ticker)
      snippet_theme == IF Truthy(search_query) THEN search_query.text
                       ELSE industry \o " business strategy"
  IN  Dict([title |-> headline,
            snippet |-> company_name \o " (" \o ticker
                        \o ") shows promising developments in its " \o snippet_theme
                        \o " with recent announcements and growing market presence.",
            source |-> sources[(i % Len(sources)) + 1],
            link |-> "https://finance.example.com/" \o Lower(ticker)
                     \o "/news/" \o ToString(i)])

\* the loop stopping one headline early
get_fallback_news_data_one_short(ticker, search_query) ==
  LET headlines == fallback_headlines(ticker, search_query)
  IN  [k \in 1..(Len(headlines) - 1) |->
         fallback_item(ticker, search_query, k - 1, headlines[k])]

get_fallback_news_data(ticker, search_query) ==
  LET headlines == fallback_headlines(ticker, search_query)
  IN  [k \in 1..Len(headlines) |->
         fallback_item(ticker, search_query, k - 1, headlines[k])]

---------------------------------------------------------------------------
(* Deterministic Hash Generator *)

\* int(hashlib.md5(s.encode()).hexdigest(), 16) reduced modulo 105000, for the
\* strings the model hashes; every modulus the code applies to a digest
\* (20, 5000, days) divides 105000, so digest % m = residue % m
md5_residues ==
  {<<"AAPL", 89210>>,
   <<"AAPLAnalysts Raise Price Target for Apple Inc. (AAPL) Citing Strong Growth", 68644>>,
   <<"AAPLApple Inc. (AAPL) CEO Outlines Vision for Company Growth", 5676>>,
   <<"AAPLApple Inc. (AAPL) Executive Team Receives Industry Recognition", 49639>>,
   <<"AAPLApple Inc. (AAPL) Expands Market Share in Technology/Consumer Electronics Sector", 12204>>,
   <<"AAPLApple Inc. (AAPL) Reports Quarterly Earnings Above Expectations", 42808>>,
   <<"AAPLCEO of Apple Inc. (AAPL) Speaks at Industry Conference on Innovation", 15177>>,
   <<"AAPLGuidance call", 36875>>,
   <<"AAPLInvestors React to Apple Inc.'s (AAPL) Latest Strategic Announcements", 8198>>,
   <<"AAPLLeadership Changes at Apple Inc. (AAPL) Seen as Positive by Analysts", 28485>>,
   <<"AAPLLeadership Strategy at Apple Inc. (AAPL) Focuses on Sustainable Growth", 98703>>,
   <<"AAPLMarket Trends Favorable for Apple Inc. (AAPL) This Quarter", 94556>>,
   <<"AAPLPositive signals amid high rates", 2065>>,
   <<"AAPLPositive surprise on strong revenue", 100918>>,
   <<"AAPLQuarterly results", 39484>>,
   <<"AAPLRegulators open probe", 6770>>,
   <<"AAPLShares rally on strong earnings", 45858>>,
   <<"AAPLTerrible week despite positive data", 41828>>,
   <<"AAPLWire 01 strong orders", 45955>>,
   <<"AAPLWire 02 dividend held", 36085>>,
   <<"AAPLWire 03 new plant opens", 83738>>,
   <<"AAPLWire 04 flat volumes", 75167>>,
   <<"AAPLWire 05 high margins", 87256>>,
   <<"AAPLWire 06 buyback set", 42100>>,
   <<"AAPLWire 07 latest filing", 11962>>,
   <<"AAPLWire 08 positive trial", 79073>>,
   <<"AAPLWire 09 audit closed", 8999>>,
   <<"AAPLWire 10 promising pilot", 59249>>,
   <<"AAPLWire 11 terrible recall", 75580>>,
   <<"AAPLWire 12 terrible outage", 22546>>,
   <<"AAPLfallback", 65492>>,
   <<"Alphabet Inc. (GOOGL) CEO Outlines Vision for Company Growth Alphabet Inc. (GOOGL) shows promising developments in its CEO reputation with recent announcements and growing market presence.GOOGL", 1098>>,
   <<"Alphabet Inc. (GOOGL) Executive Team Receives Industry Recognition Alphabet Inc. (GOOGL) shows promising developments in its CEO reputation with recent announcements and growing market presence.GOOGL", 51163>>,
   <<"Alphabet Inc. (GOOGL) Expands Market Share in Technology/Internet Services Sector Alphabet Inc. (GOOGL) shows promising developments in its Technology/Internet Services business strategy with recent announcements and growing market presence.GOOGL", 82993>>,
   <<"Alphabet Inc. (GOOGL) Reports Quarterly Earnings Above Expectations Alphabet Inc. (GOOGL) shows promising developments in its Technology/Internet Services business strategy with recent announcements and growing market presence.GOOGL", 280>>,
   <<"Analysts Raise Price Target for Alphabet Inc. (GOOGL) Citing Strong Growth Alphabet Inc. (GOOGL) shows promising developments in its Technology/Internet Services business strategy with recent announcements and growing market presence.GOOGL", 90766>>,
   <<"Analysts Raise Price Target for Apple Inc. (AAPL) Citing Strong Growth Apple Inc. (AAPL) shows promising developments in its Technology/Consumer Electronics business strategy with recent announcements and growing market presence.AAPL", 41504>>,
   <<"Analysts Raise Price Target for ZZZZ Corporation (ZZZZ) Citing Strong Growth ZZZZ Corporation (ZZZZ) shows promising developments in its Technology business strategy with recent announcements and growing market presence.ZZZZ", 59703>>,
   <<"Apple Inc. (AAPL) CEO Outlines Vision for Company Growth Apple Inc. (AAPL) shows promising developments in its CEO reputation with recent announcements and growing market presence.AAPL", 76>>,
   <<"Apple Inc. (AAPL) Executive Team Receives Industry Recognition Apple Inc. (AAPL) shows promising developments in its CEO reputation with recent announcements and growing market presence.AAPL", 3625>>,
   <<"Apple Inc. (AAPL) Expands Market Share in Technology/Consumer Electronics Sector Apple Inc. (AAPL) shows promising developments in its Technology/Consumer Electronics business strategy with recent announcements and growing market presence.AAPL", 101103>>,
   <<"Apple Inc. (AAPL) Reports Quarterly Earnings Above Expectations Apple Inc. (AAPL) shows promising developments in its Technology/Consumer Electronics business strategy with recent announcements and growing market presence.AAPL", 70406>>,
   <<"CEO of Alphabet Inc. (GOOGL) Speaks at Industry Conference on Innovation Alphabet Inc. (GOOGL) shows promising developments in its CEO reputation with recent announcements and growing market presence.GOOGL", 34108>>,
   <<"CEO of Apple Inc. (AAPL) Speaks at Industry Conference on Innovation Apple Inc. (AAPL) shows promising developments in its CEO reputation with recent announcements and growing market presence.AAPL", 10023>>,
   <<"CEO of ZZZZ Corporation (ZZZZ) Speaks at Industry Conference on Innovation ZZZZ Corporation (ZZZZ) shows promising developments in its CEO reputation with recent announcements and growing market presence.ZZZZ", 10300>>,
   <<"GOOGL", 30291>>,
   <<"GOOGLAlphabet Inc. (GOOGL) CEO Outlines Vision for Company Growth", 97459>>,
   <<"GOOGLAlphabet Inc. (GOOGL) Executive Team Receives Industry Recognition", 78040>>,
   <<"GOOGLAlphabet Inc. (GOOGL) Expands Market Share in Technology/Internet Services Sector", 77046>>,
   <<"GOOGLAlphabet Inc. (GOOGL) Reports Quarterly Earnings Above Expectations", 104315>>,
   <<"GOOGLAnalysts Raise Price Target for Alphabet Inc. (GOOGL) Citing Strong Growth", 39377>>,
   <<"GOOGLCEO of Alphabet Inc. (GOOGL) Speaks at Industry Conference on Innovation", 25895>>,
   <<"GOOGLGuidance call", 10904>>,
   <<"GOOGLInvestors React to Alphabet Inc.'s (GOOGL) Latest Strategic Announcements", 60933>>,
   <<"GOOGLLeadership Changes at Alphabet Inc. (GOOGL) Seen as Positive by Analysts", 40892>>,
   <<"GOOGLLeadership Strategy at Alphabet Inc. (GOOGL) Focuses on Sustainable Growth", 60822>>,
   <<"GOOGLMarket Trends Favorable for Alphabet Inc. (GOOGL) This Quarter", 61338>>,
   <<"GOOGLPositive signals amid high rates", 101370>>,
   <<"GOOGLPositive surprise on strong revenue", 53485>>,
   <<"GOOGLQuarterly results", 57279>>,
   <<"GOOGLRegulators open probe", 91839>>,
   <<"GOOGLShares rally on strong earnings", 24612>>,
   <<"GOOGLTerrible week despite positive data", 12038>>,
   <<"GOOGLWire 01 strong orders", 41763>>,
   <<"GOOGLWire 02 dividend held", 68553>>,
   <<"GOOGLWire 03 new plant opens", 71854>>,
   <<"GOOGLWire 04 flat volumes", 40182>>,
   <<"GOOGLWire 05 high margins", 39612>>,
   <<"GOOGLWire 06 buyback set", 4879>>,
   <<"GOOGLWire 07 latest filing", 5957>>,
   <<"GOOGLWire 08 positive trial", 31705>>,
   <<"GOOGLWire 09 audit closed", 36475>>,
   <<"GOOGLWire 10 promising pilot", 37511>>,
   <<"GOOGLWire 11 terrible recall", 30027>>,
   <<"GOOGLWire 12 terrible outage", 90337>>,
   <<"GOOGLfallback", 38403>>,
   <<"Guidance call Management sees high demand.AAPL", 85602>>,
   <<"Guidance call Management sees high demand.GOOGL", 6904>>,
   <<"Guidance call Management sees high demand.ZZZZ", 7475>>,
   <<"Investors React to Alphabet Inc.'s (GOOGL) Latest Strategic Announcements Alphabet Inc. (GOOGL) shows promising developments in its Technology/Internet Services business strategy with recent announcements and growing market presence.GOOGL", 31459>>,
   <<"Investors React to Apple Inc.'s (AAPL) Latest Strategic Announcements Apple Inc. (AAPL) shows promising developments in its Technology/Consumer Electronics business strategy with recent announcements and growing market presence.AAPL", 56753>>,
   <<"Investors React to ZZZZ Corporation's (ZZZZ) Latest Strategic Announcements ZZZZ Corporation (ZZZZ) shows promising developments in its Technology business strategy with recent announcements and growing market presence.ZZZZ", 76402>>,
   <<"Leadership Changes at Alphabet Inc. (GOOGL) Seen as Positive by Analysts Alphabet Inc. (GOOGL) shows promising developments in its CEO reputation with recent announcements and growing market presence.GOOGL", 88653>>,
   <<"Leadership Changes at Apple Inc. (AAPL) Seen as Positive by Analysts Apple Inc. (AAPL) shows promising developments in its CEO reputation with recent announcements and growing market presence.AAPL", 84601>>,
   <<"Leadership Changes at ZZZZ Corporation (ZZZZ) Seen as Positive by Analysts ZZZZ Corporation (ZZZZ) shows promising developments in its CEO reputation with recent announcements and growing market presence.ZZZZ", 99350>>,
   <<"Leadership Strategy at Alphabet Inc. (GOOGL) Focuses on Sustainable Growth Alphabet Inc. (GOOGL) shows promising developments in its CEO reputation with recent announcements and growing market presence.GOOGL", 17243>>,
   <<"Leadership Strategy at Apple Inc. (AAPL) Focuses on Sustainable Growth Apple Inc. (AAPL) shows promising developments in its CEO reputation with recent announcements and growing market presence.AAPL", 82897>>,
   <<"Leadership Strategy at ZZZZ Corporation (ZZZZ) Focuses on Sustainable Growth ZZZZ Corporation (ZZZZ) shows promising developments in its CEO reputation with recent announcements and growing market presence.ZZZZ", 83226>>,
   <<"Market Trends Favorable for Alphabet Inc. (GOOGL) This Quarter Alphabet Inc. (GOOGL) shows promising developments in its Technology/Internet Services business strategy with recent announcements and growing market presence.GOOGL", 48713>>,
   <<"Market Trends Favorable for Apple Inc. (AAPL) This Quarter Apple Inc. (AAPL) shows promising developments in its Technology/Consumer Electronics business strategy with recent announcements and growing market presence.AAPL", 14907>>,
   <<"Market Trends Favorable for ZZZZ Corporation (ZZZZ) This Quarter ZZZZ Corporation (ZZZZ) shows promising developments in its Technology business strategy with recent announcements and growing market presence.ZZZZ", 48545>>,
   <<"Positive signals amid high rates AAPL", 8141>>,
   <<"Positive signals amid high rates GOOGL", 87283>>,
   <<"Positive signals amid high rates ZZZZ", 35939>>,
   <<"Positive surprise on strong revenue AAPL", 36933>>,
   <<"Positive surprise on strong revenue GOOGL", 96067>>,
   <<"Positive surprise on strong revenue ZZZZ", 52772>>,
   <<"Quarterly results Revenue was flat.AAPL", 15368>>,
   <<"Quarterly results Revenue was flat.GOOGL", 87624>>,
   <<"Quarterly results Revenue was flat.ZZZZ", 97106>>,
   <<"Regulators open probe Investors fear a terrible quarter.AAPL", 41026>>,
   <<"Regulators open probe Investors fear a terrible quarter.GOOGL", 24102>>,
   <<"Regulators open probe Investors fear a terrible quarter.ZZZZ", 38769>>,
   <<"Shares rally on strong earnings Analysts see positive momentum.AAPL", 78293>>,
   <<"Shares rally on strong earnings Analysts see positive momentum.GOOGL", 86954>>,
   <<"Shares rally on strong earnings Analysts see positive momentum.ZZZZ", 59634>>,
   <<"Terrible week despite positive data AAPL", 8419>>,
   <<"Terrible week despite positive data GOOGL", 31657>>,
   <<"Terrible week despite positive data ZZZZ", 34717>>,
   <<"Wire 01 strong orders AAPL", 82628>>,
   <<"Wire 01 strong orders GOOGL", 90067>>,
   <<"Wire 01 strong orders ZZZZ", 98314>>,
   <<"Wire 02 dividend held AAPL", 81858>>,
   <<"Wire 02 dividend held GOOGL", 5262>>,
   <<"Wire 02 dividend held ZZZZ", 24508>>,
   <<"Wire 03 new plant opens AAPL", 84601>>,
   <<"Wire 03 new plant opens GOOGL", 20538>>,
   <<"Wire 03 new plant opens ZZZZ", 78261>>,
   <<"Wire 04 flat volumes AAPL", 65056>>,
   <<"Wire 04 flat volumes GOOGL", 96000>>,
   <<"Wire 04 flat volumes ZZZZ", 71702>>,
   <<"Wire 05 high margins AAPL", 46212>>,
   <<"Wire 05 high margins GOOGL", 77375>>,
   <<"Wire 05 high margins ZZZZ", 88494>>,
   <<"Wire 06 buyback set AAPL", 19677>>,
   <<"Wire 06 buyback set GOOGL", 68736>>,
   <<"Wire 06 buyback set ZZZZ", 15016>>,
   <<"Wire 07 latest filing AAPL", 53323>>,
   <<"Wire 07 latest filing GOOGL", 15181>>,
   <<"Wire 07 latest filing ZZZZ", 29452>>,
   <<"Wire 08 positive trial AAPL", 1504>>,
   <<"Wire 08 positive trial GOOGL", 65384>>,
   <<"Wire 08 positive trial ZZZZ", 96592>>,
   <<"Wire 09 audit closed AAPL", 64110>>,
   <<"Wire 09 audit closed GOOGL", 99172>>,
   <<"Wire 09 audit closed ZZZZ", 30990>>,
   <<"Wire 10 promising pilot AAPL", 47753>>,
   <<"Wire 10 promising pilot GOOGL", 35777>>,
   <<"Wire 10 promising pilot ZZZZ", 92196>>,
   <<"Wire 11 terrible recall AAPL", 23655>>,
   <<"Wire 11 terrible recall GOOGL", 41939>>,
   <<"Wire 11 terrible recall ZZZZ", 994>>,
   <<"Wire 12 terrible outage AAPL", 33119>>,
   <<"Wire 12 terrible outage GOOGL", 67330>>,
   <<"Wire 12 terrible outage ZZZZ", 22883>>,
   <<"ZZZZ", 65232>>,
   <<"ZZZZ Corporation (ZZZZ) CEO Outlines Vision for Company Growth ZZZZ Corporation (ZZZZ) shows promising developments in its CEO reputation with recent announcements and growing market presence.ZZZZ", 35165>>,
   <<"ZZZZ Corporation (ZZZZ) Executive Team Receives Industry Recognition ZZZZ Corporation (ZZZZ) shows promising developments in its CEO reputation with recent announcements and growing market presence.ZZZZ", 52335>>,
   <<"ZZZZ Corporation (ZZZZ) Expands Market Share in Technology Sector ZZZZ Corporation (ZZZZ) shows promising developments in its Technology business strategy with recent announcements and growing market presence.ZZZZ", 73761>>,
   <<"ZZZZ Corporation (ZZZZ) Reports Quarterly Earnings Above Expectations ZZZZ Corporation (ZZZZ) shows promising developments in its Technology business strategy with recent announcements and growing market presence.ZZZZ", 49672>>,
   <<"ZZZZAnalysts Raise Price Target for ZZZZ Corporation (ZZZZ) Citing Strong Growth", 95056>>,
   <<"ZZZZCEO of ZZZZ Corporation (ZZZZ) Speaks at Industry Conference on Innovation", 24807>>,
   <<"ZZZZGuidance call", 22706>>,
   <<"ZZZZInvestors React to ZZZZ Corporation's (ZZZZ) Latest Strategic Announcements", 25089>>,
   <<"ZZZZLeadership Changes at ZZZZ Corporation (ZZZZ) Seen as Positive by Analysts", 35227>>,
   <<"ZZZZLeadership Strategy at ZZZZ Corporation (ZZZZ) Focuses on Sustainable Growth", 26158>>,
   <<"ZZZZMarket Trends Favorable for ZZZZ Corporation (ZZZZ) This Quarter", 74800>>,
   <<"ZZZZPositive signals amid high rates", 98372>>,
   <<"ZZZZPositive surprise on strong revenue", 21548>>,
   <<"ZZZZQuarterly results", 63125>>,
   <<"ZZZZRegulators open probe", 99265>>,
   <<"ZZZZShares rally on strong earnings", 80559>>,
   <<"ZZZZTerrible week despite positive data", 70047>>,
   <<"ZZZZWire 01 strong orders", 30107>>,
   <<"ZZZZWire 02 dividend held", 58026>>,
   <<"ZZZZWire 03 new plant opens", 81102>>,
   <<"ZZZZWire 04 flat volumes", 35829>>,
   <<"ZZZZWire 05 high margins", 52593>>,
   <<"ZZZZWire 06 buyback set", 11253>>,
   <<"ZZZZWire 07 latest filing", 52044>>,
   <<"ZZZZWire 08 positive trial", 37726>>,
   <<"ZZZZWire 09 audit closed", 70240>>,
   <<"ZZZZWire 10 promising pilot", 50810>>,
   <<"ZZZZWire 11 terrible recall", 2831>>,
   <<"ZZZZWire 12 terrible outage", 28212>>,
   <<"ZZZZZZZZ Corporation (ZZZZ) CEO Outlines Vision for Company Growth", 3009>>,
   <<"ZZZZZZZZ Corporation (ZZZZ) Executive Team Receives Industry Recognition", 55572>>,
   <<"ZZZZZZZZ Corporation (ZZZZ) Expands Market Share in Technology Sector", 63342>>,
   <<"ZZZZZZZZ Corporation (ZZZZ) Reports Quarterly Earnings Above Expectations", 85748>>,
   <<"ZZZZfallback", 12744>>}

md5(s) == (CHOOSE p \in md5_residues : p[1] = s)[2]

\* Python's a % b for a >= 0 known modulo md5_modulus (the sign follows b;
\* b = 0 raises ZeroDivisionError and is decided by the caller)
PyMod(a, b) ==
  IF b > 0 THEN a % b
  ELSE IF a % (-b) = 0 THEN 0 ELSE (a % (-b)) + b

---------------------------------------------------------------------------
(* Sentiment Scorer *)

\* TextBlob(text).sentiment.polarity, in thousandths: the estimator averages the
\* polarity of the lexicon words it finds in the text (0.0 when it finds none)
RECURSIVE SumPolarity(_)
SumPolarity(entries) ==
  IF entries = {} THEN 0
  ELSE LET e == CHOOSE x \in entries : TRUE
       IN  e.polarity + SumPolarity(entries \ {e})

polarity(text) ==
  LET lowered == Lower(text)
      found == {e \in lexicon : Contains(lowered, e.word)}
  IN  IF found = {} THEN 0
      ELSE LET total == SumPolarity(found)
               n == Cardinality(found)
           IN  IF total >= 0 THEN total \div n ELSE -((-total) \div n)

Max(a, b) == IF a >= b THEN a ELSE b
Min(a, b) == IF a <= b THEN a ELSE b

\* the adjustment with the shift by 10 left out
hash_adjustment_unshifted(hash_value) == (hash_value % 20) * 10

\* adjustment = (hash_value % 20 - 10) / 100, in thousandths
hash_adjustment(hash_value) == ((hash_value % 20) - 10) * 10

adjustment(text, seed) == hash_adjustment(md5(text \o seed))

\* the sum returned as it is
clamp_sentiment_unclamped(sentiment, hash_value) ==
  sentiment + hash_adjustment(hash_value)

\* max(min(sentiment + adjustment, 1.0), -1.0)
clamp_sentiment(sentiment, hash_value) ==
  Max(Min(sentiment + hash_adjustment(hash_value), 1000), -1000)

get_deterministic_sentiment(text, seed) ==
  clamp_sentiment(polarity(text), md5(text \o seed))

\* the midpoints between two hundredths (in thousandths, positive) that round(x, 2)
\* takes to the hundredth above: a midpoint is no binary64 number, so the double
\* lies to one side of it (the midpoints k/8 are exact and go to the even hundredth)
binary64_rounds_up ==
  {5, 25, 35, 55, 65, 85, 95, 115, 135, 165, 195, 225,
   255, 265, 275, 315, 325, 335, 375, 385, 395, 405, 445, 455,
   465, 505, 515, 525, 535, 545, 555, 635, 645, 655, 665, 675,
   685, 755, 765, 775, 785, 795, 805, 875, 885, 895, 905, 915,
   925, 935}

\* round(x, 2) of x = num / den thousandths, for num >= 0 and den > 0
round2_magnitude(num, den) ==
  LET lo == num \div (10 * den)
      twice == 2 * (num - lo * 10 * den)
  IN  IF twice < 10 * den THEN lo * 10
      ELSE IF twice > 10 * den THEN (lo + 1) * 10
      ELSE IF (lo * 10 + 5) \in binary64_rounds_up THEN (lo + 1) * 10 ELSE lo * 10

\* the third decimal cut off where it should be rounded
round2_truncated(num, den) ==
  IF num < 0 THEN -(((-num) \div (10 * den)) * 10) ELSE (num \div (10 * den)) * 10

\* round(x, 2) of x = num / den thousandths (den > 0), in thousandths
round2(num, den) ==
  IF num < 0 THEN -round2_magnitude(-num, den) ELSE round2_magnitude(num, den)

\* hash_value % days + 1 (days # 0)
hash_days_back(hash_value, days) == PyMod(hash_value, days) + 1

days_back(ticker, headline, days) == hash_days_back(md5(ticker \o headline), days)

Pad(n, width) ==
  LET s == ToString(n)
  IN  IF Len(s) >= width THEN s
      ELSE SubSeq("0000", 1, width - Len(s)) \o s

\* date.strftime("%Y-%m-%d") of the day with proleptic Gregorian ordinal n
\* (ordinal 1 is 0001-01-01)
strftime(n) ==
  LET z == n + 305
      era == z \div 146097
      doe == z - era * 146097
      yoe == (doe - doe \div 1460 + doe \div 36524 - doe \div 146096) \div 365
      doy == doe - (365 * yoe + yoe \div 4 - yoe \div 100)
      mp == (5 * doy + 2) \div 153
      d == doy - (153 * mp + 2) \div 5 + 1
      m == IF mp < 10 THEN mp + 3 ELSE mp - 9
      y == yoe + era * 400 + (IF m <= 2 THEN 1 ELSE 0)
  IN  Pad(y, 4) \o "-" \o Pad(m, 2) \o "-" \o Pad(d, 2)

\* datetime.now() - timedelta(days=days_back), formatted; now is today's ordinal
get_deterministic_date(ticker, headline, days, now) ==
  strftime(now - days_back(ticker, headline, days))

---------------------------------------------------------------------------
(* Synthetic Market-Signal Generator *)

\* the news factor computed with integer division
mentions_from_hash_floor_factor(ticker_hash, news_count) ==
  LET base_mentions == (ticker_hash % 5000) + 1000
  IN  IF news_count \div 2 <= 1 THEN base_mentions
      ELSE base_mentions * (news_count \div 2)

\* the news factor applied from the fourth news item on
mentions_from_hash_late_factor(ticker_hash, news_count) ==
  LET base_mentions == (ticker_hash % 5000) + 1000
  IN  IF news_count <= 3 THEN base_mentions
      ELSE (base_mentions * news_count) \div 2

\* int(base_mentions * max(1, news_count / 2))
mentions_from_hash(ticker_hash, news_count) ==
  LET base_mentions == (ticker_hash % 5000) + 1000
  IN  IF news_count <= 2 THEN base_mentions
      ELSE (base_mentions * news_count) \div 2

get_deterministic_social_media_mentions(ticker, news_count) ==
  mentions_from_hash(md5(ticker), news_count)

total_analysts == 25

\* the two-decimal scores (in thousandths) at which the binary64 product
\* (sentiment_score + 1) * 50 is one ulp below the integer it equals exactly,
\* so that int() truncates it to the integer below
binary64_short == {-920, -900, -800, -780, -680, -560, -340, 160, 820}

\* int((sentiment_score + 1) * 50)
scaled_sentiment(sentiment_score) ==
  ((sentiment_score + 1000) * 50) \div 1000
    - (IF sentiment_score \in binary64_short THEN 1 ELSE 0)

Abs(x) == IF x < 0 THEN -x ELSE x

\* the ratings with the buy and sell ratios exchanged
get_deterministic_analyst_ratings_swapped(sentiment_score) ==
  LET scaled == scaled_sentiment(sentiment_score)
  IN  [buy |-> (total_analysts * (100 - scaled)) \div 100,
       hold |-> (total_analysts * (2000 - Abs(sentiment_score))) \div 2000,
       sell |-> (total_analysts * scaled) \div 100]

get_deterministic_analyst_ratings(sentiment_score) ==
  LET scaled == scaled_sentiment(sentiment_score)
  IN  [buy |-> (total_analysts * scaled) \div 100,
       hold |-> (total_analysts * (2000 - Abs(sentiment_score))) \div 2000,
       sell |-> (total_analysts * (100 - scaled)) \div 100]

---------------------------------------------------------------------------
(* News Fetcher *)

\* the query string fetch_stock_news puts in the payload
\* the query built without the company name
search_query_string_unnamed(ticker, search_query) ==
  IF Truthy(search_query)
    THEN ticker \o " " \o search_query.text
    ELSE ticker \o " stock financial news analysis"

search_query_string(ticker, search_query) ==
  IF Truthy(search_query)
    THEN get_company_name_for_ticker(ticker) \o " (" \o ticker \o ") " \o search_query.text
    ELSE ticker \o " stock financial news analysis"

\* requests.post(url, headers=headers, data=payload): no timeout argument is passed
http_request(api_key, ticker, search_query) ==
  [url |-> "https://google.serper.dev/search",
   q |-> search_query_string(ticker, search_query),
   num |-> 20,
   x_api_key |-> api_key,
   timeout |-> None]

\* `not v` on a Python value
Falsy(v) ==
  CASE v.type = "list" -> v.items = <<>>
    [] v.type = "str" -> v.text = ""
    [] v.type = "int" -> v.n = 0
    [] OTHER -> DOMAIN v.fields = {}

\* `"snippet" in item`: a key test on a dict, a substring test on a str
HasSnippet(item) ==
  CASE item.type = "dict" -> "snippet" \in DOMAIN item.fields
    [] item.type = "str" -> Contains(item.text, "snippet")
    [] OTHER -> FALSE

Raised(exc) == [raised |-> TRUE, exc |-> exc]
Value(v) == [raised |-> FALSE, value |-> v]

\* the organic entries taken without the snippet filter
organic_items_unfiltered(organic) ==
  CASE organic.type = "list" ->
         IF \E i \in DOMAIN organic.items : organic.items[i].type = "int"
           THEN Raised("TypeError")
           ELSE Value(List(organic.items))
    [] organic.type = "str" -> Value(List(<<>>))
    [] organic.type = "dict" -> Value(List(<<>>))
    [] OTHER -> Raised("TypeError")

\* [item for item in data["organic"] if "snippet" in item]
organic_items(organic) ==
  CASE organic.type = "list" ->
         IF \E i \in DOMAIN organic.items : organic.items[i].type = "int"
           THEN Raised("TypeError")
           ELSE Value(List(SelectSeq(organic.items, HasSnippet)))
    [] organic.type = "str" -> Value(List(<<>>))
    [] organic.type = "dict" -> Value(List(<<>>))
    [] OTHER -> Raised("TypeError")

\* the body of the try statement, from requests.post to `return news_items`
try_fetch(outcome) ==
  IF outcome.kind # "response" THEN Raised(outcome.kind)
  ELSE IF outcome.status >= 400 THEN Raised("HTTPError")
  ELSE IF ~outcome.body.json THEN Raised("JSONDecodeError")
  ELSE IF outcome.body.data.type # "dict" THEN Raised("AttributeError")
  ELSE LET data == outcome.body.data.fields
           news == IF "news" \in DOMAIN data THEN data["news"] ELSE List(<<>>)
           got == IF Falsy(news) /\ "organic" \in DOMAIN data
                    THEN organic_items(data["organic"])
                    ELSE Value(news)
       IN  IF got.raised THEN got
           ELSE IF got.value.type = "int" THEN Raised("TypeError")
           ELSE got

\* a fetch that falls back to the generated news also when the answer holds
\* no item
fetch_stock_news_never_empty(ticker, search_query, outcome) ==
  LET got == try_fetch(outcome)
  IN  IF got.raised \/ Falsy(got.value)
        THEN List(get_fallback_news_data(ticker, search_query))
        ELSE got.value

\* except Exception: return self.get_fallback_news_data(ticker, search_query)
fetch_stock_news(ticker, search_query, outcome) ==
  LET got == try_fetch(outcome)
  IN  IF got.raised
        THEN List(get_fallback_news_data(ticker, search_query))
        ELSE got.value

---------------------------------------------------------------------------
(* SentimentAnalysisTool._run *)

item_label(sentiment_score) ==
  IF sentiment_score > 100 THEN "positive"
  ELSE IF sentiment_score < -100 THEN "negative"
  ELSE "neutral"

\* the thresholds taken inclusively
overall_label_inclusive(overall_sentiment_score) ==
  IF overall_sentiment_score >= 300 THEN "Bullish"
  ELSE IF overall_sentiment_score <= -300 THEN "Bearish"
  ELSE "Neutral"

overall_label(overall_sentiment_score) ==
  IF overall_sentiment_score > 300 THEN "Bullish"
  ELSE IF overall_sentiment_score < -300 THEN "Bearish"
  ELSE "Neutral"

item_text(item) == Get(item, "title", "") \o " " \o Get(item, "snippet", "")

item_score(item, ticker) == get_deterministic_sentiment(item_text(item), ticker)

\* the dict appended to processed_news for one item whose score is sentiment_score
processed_item(item, sentiment_score, ticker, days, now) ==
  [headline |-> Get(item, "title", "No title"),
   source |-> Get(item, "source", "Unknown"),
   date |-> get_deterministic_date(ticker, Get(item, "title", ""), days, now),
   sentiment |-> item_label(sentiment_score),
   sentiment_score |-> round2(sentiment_score, 1),
   url |-> Get(item, "link", ""),
   snippet |-> Get(item, "snippet", "No content available")]

\* news_items[: min(len(news_items), 10)]; slicing a str gives its characters
first_eleven(fetched) ==
  IF fetched.type = "list"
    THEN SubSeq(fetched.items, 1, Min(Len(fetched.items), 11))
    ELSE [i \in 1..Min(Len(fetched.text), 11) |->
            StrVal(SubSeq(fetched.text, i, i))]

first_ten(fetched) ==
  IF fetched.type = "list"
    THEN SubSeq(fetched.items, 1, Min(Len(fetched.items), 10))
    ELSE [i \in 1..Min(Len(fetched.text), 10) |->
            StrVal(SubSeq(fetched.text, i, i))]

\* total_sentiment_score after the loop
RECURSIVE total_sentiment(_)
total_sentiment(scores) ==
  IF Len(scores) = 0 THEN 0
  ELSE Head(scores) + total_sentiment(Tail(scores))

Return(v) == [kind |-> "return", value |-> v]
Raise(exc) == [kind |-> "raise", exc |-> exc]

\* the report _run returns once every item is processed
report(ticker, days, search_query, items, now) ==
  LET scores == [i \in 1..Len(items) |-> item_score(items[i], ticker)]
      processed_news == [i \in 1..Len(items) |->
                           processed_item(items[i], scores[i], ticker, days, now)]
      overall_sentiment_score ==
        IF Len(items) > 0
          THEN round2(total_sentiment(scores), Len(items))
          ELSE get_deterministic_sentiment(ticker, "fallback")
  IN  [ticker |-> ticker,
       company_name |-> get_company_name_for_ticker(ticker),
       search_context |-> IF Truthy(search_query) THEN search_query.text
                          ELSE ticker \o " stock financial news analysis",
       overall_sentiment_score |-> overall_sentiment_score,
       sentiment_label |-> overall_label(overall_sentiment_score),
       news_count |-> Len(processed_news),
       social_media_mentions |->
         get_deterministic_social_media_mentions(ticker, Len(processed_news)),
       analyst_ratings |-> get_deterministic_analyst_ratings(overall_sentiment_score),
       news_items |-> processed_news]

\* _run after fetch_stock_news has returned news_items: the loop raises at the
\* first item that is not a dict (item.get) or, when days = 0, at the first
\* item's date (hash_value % days)
run(ticker, days, search_query, fetched, now) ==
  LET items == first_ten(fetched)
  IN  IF Len(items) > 0 /\ items[1].type # "dict" THEN Raise("AttributeError")
      ELSE IF Len(items) > 0 /\ days = 0 THEN Raise("ZeroDivisionError")
      ELSE IF \E i \in DOMAIN items : items[i].type # "dict" THEN Raise("AttributeError")
      ELSE Return(report(ticker, days, search_query, items, now))

---------------------------------------------------------------------------
(* The two constructors, and the tradesymphony copy of the tool *)

\* stocksage __init__: serper_api_key or os.environ.get("SERPER_API_KEY", None)
init_serper_api_key(given, environ) ==
  IF Truthy(given) THEN given ELSE environ

\* tradesymphony __init__: serper_api_key or os.environ.get("SERPER_API_KEY",
\* "07daa2a1ac1b71274fc9fc1f32987bb588d5c0e4")
finance_init_serper_api_key(given, environ) ==
  IF Truthy(given) THEN given
  ELSE IF environ.isNone THEN Str("07daa2a1ac1b71274fc9fc1f32987bb588d5c0e4")
  ELSE environ

\* the request built by the tradesymphony fetch_stock_news
finance_http_request(api_key, ticker, search_query) ==
  [url |-> "https://google.serper.dev/search",
   q |-> search_query_string(ticker, search_query),
   num |-> 20,
   x_api_key |-> api_key,
   timeout |-> None]

\* a fallback that ignores the search query
finance_get_fallback_news_data_generic(ticker, search_query) ==
  get_fallback_news_data(ticker, None)

\* the tradesymphony get_fallback_news_data: the same statements, with one
\* more local, search_context, that nothing reads
finance_get_fallback_news_data(ticker, search_query) ==
  LET search_context == IF ~Truthy(search_query) THEN "financial performance"
                        ELSE Lower(search_query.text)
  IN  get_fallback_news_data(ticker, search_query)

finance_fetch_stock_news(ticker, search_query, outcome) ==
  LET got == try_fetch(outcome)
  IN  IF got.raised
        THEN List(finance_get_fallback_news_data(ticker, search_query))
        ELSE got.value

\* the tradesymphony _run: the same statements under @traceable
finance_run(ticker, days, search_query, fetched, now) ==
  run(ticker, days, search_query, fetched, now)

---------------------------------------------------------------------------
(* Inputs and environment of the model *)

\* tickers: in both company tables, named differently by the two tables,
\* in neither table
Tickers == {"AAPL", "GOOGL", "ZZZZ"}

DaysValues == {0, 7, 30}

Queries == {None, Str(""), Str("CEO reputation")}

\* self.serper_api_key: `serper_api_key or os.environ.get("SERPER_API_KEY", None)`
ApiKeys == {None, Str("serper-key")}

\* candidate lexicons of the polarity estimator (words in lower case)
NoLexicon == {}
FinanceLexicon ==
  {[word |-> "strong", polarity |-> 433], [word |-> "positive", polarity |-> 227],
   [word |-> "promising", polarity |-> 200], [word |-> "new", polarity |-> 136],
   [word |-> "high", polarity |-> 160], [word |-> "latest", polarity |-> 500],
   [word |-> "terrible", polarity |-> -1000], [word |-> "flat", polarity |-> -30]}
Lexicons == {NoLexicon, FinanceLexicon}

\* entries a search payload can carry
NewsA ==
  Dict([title |-> "Shares rally on strong earnings",
        snippet |-> "Analysts see positive momentum.",
        source |-> "Reuters", link |-> "https://news.example.com/a"])
NewsB ==
  Dict([title |-> "Regulators open probe",
        snippet |-> "Investors fear a terrible quarter."])
OrganicBare ==
  Dict([title |-> "Company profile", link |-> "https://news.example.com/d"])
OrganicHit ==
  Dict([title |-> "Quarterly results", snippet |-> "Revenue was flat.",
        link |-> "https://news.example.com/c"])

OrganicLate ==
  Dict([title |-> "Guidance call", snippet |-> "Management sees high demand.",
        link |-> "https://news.example.com/e"])

\* a payload whose single entry scores at or just above 0.3
NewsUp ==
  Dict([title |-> "Positive surprise on strong revenue", source |-> "CNBC"])
\* a payload whose single entry scores at or just below -0.3
NewsDown ==
  Dict([title |-> "Terrible week despite positive data"])
\* a payload whose single entry scores just above 0.1 before rounding
NewsEdge ==
  Dict([title |-> "Positive signals amid high rates"])
\* a payload with more than ten entries
WireTitles ==
  <<"Wire 01 strong orders", "Wire 02 dividend held", "Wire 03 new plant opens",
    "Wire 04 flat volumes", "Wire 05 high margins", "Wire 06 buyback set",
    "Wire 07 latest filing", "Wire 08 positive trial", "Wire 09 audit closed",
    "Wire 10 promising pilot", "Wire 11 terrible recall", "Wire 12 terrible outage">>
Wire12 == [k \in 1..Len(WireTitles) |-> Dict([title |-> WireTitles[k]])]

Json(data) == [json |-> TRUE, data |-> data]
NotJson == [json |-> FALSE, data |-> StrVal("<html>Bad Gateway</html>")]

ConnectionError == [kind |-> "ConnectionError", status |-> 0, body |-> NotJson]
HttpResponse(status, body) == [kind |-> "response", status |-> status, body |-> body]

\* 2xx responses of the search API
OkResponses ==
  {HttpResponse(200, Json(Dict([news |-> List(<<NewsA, NewsB>>)]))),
   HttpResponse(200, Json(Dict([organic |-> List(<<OrganicBare, OrganicHit, OrganicLate>>)]))),
   HttpResponse(200, Json(Dict([searchParameters |-> StrVal("search")]))),
   HttpResponse(200, Json(Dict([news |-> List(<<StrVal("Service temporarily unavailable")>>)]))),
   HttpResponse(200, Json(List(<<>>))),
   HttpResponse(200, NotJson),
   HttpResponse(200, Json(Dict([news |-> List(<<NewsUp>>), organic |-> List(<<OrganicHit>>)]))),
   HttpResponse(200, Json(Dict([news |-> List(<<NewsDown>>)]))),
   HttpResponse(200, Json(Dict([news |-> List(Wire12)]))),
   HttpResponse(200, Json(Dict([news |-> List(<<NewsEdge>>)]))),
   HttpResponse(200, Json(Dict([organic |-> List(<<OrganicBare>>)])))}

\* outcomes of a request that did not succeed
FailedResponses ==
  {ConnectionError, HttpResponse(403, Json(Dict([message |-> StrVal("Unauthorized.")])))}

\* the search API answers a request without a key with an error status
Outcomes(api_key) ==
  IF Truthy(api_key) THEN OkResponses \cup FailedResponses ELSE FailedResponses

\* datetime.now() when the model starts: 2026-11-01
ClockStart == 739921
\* how many midnights pass while the model runs
MaxTicks == 1

NoArgs == [ticker |-> "", days |-> 0, search_query |-> None]
NoRequest == [url |-> "", q |-> "", num |-> 0, x_api_key |-> None, timeout |-> None]
NoResponse == [kind |-> "none", status |-> 0, body |-> NotJson]
NoNews == [type |-> "none"]
NoResult == [kind |-> "none"]
NoLast == [seen |-> FALSE]
NoCall == [fn |-> "none"]
NoRet == [done |-> FALSE]
NoTwin == [serper_api_key |-> None, request |-> NoRequest, news_items |-> NoNews,
           result |-> NoResult]

\* the environment variable SERPER_API_KEY: unset or set
EnvKeys == {None, Str("serper-key")}

\* the variables of the other specifications, at rest
ParIdle ==
  /\ frames = <<>>
  /\ calls = <<>>

BatchIdle ==
  /\ av_key = None
  /\ finnhub_key = None
  /\ semaphore_av = 0
  /\ semaphore_finnhub = 0
  /\ symbols = <<>>
  /\ tasks = <<>>
  /\ all_results = <<>>
  /\ awaited = {}
  /\ batch_pc = "idle"
  /\ load = <<>>

---------------------------------------------------------------------------
(* The tool: one instance, one caller *)

Init ==
  /\ \E given \in ApiKeys, environ \in EnvKeys :
       /\ serper_api_key = init_serper_api_key(given, environ)
       /\ twin = [NoTwin EXCEPT
                   !.serper_api_key = finance_init_serper_api_key(given, environ)]
  /\ posts = 0
  /\ ParIdle
  /\ BatchIdle
  /\ lexicon \in Lexicons
  /\ today = ClockStart
  /\ pc = "idle"
  /\ args = NoArgs
  /\ request = NoRequest
  /\ response = NoResponse
  /\ news_items = NoNews
  /\ result = NoResult
  /\ last = NoLast
  /\ call = NoCall
  /\ ret = NoRet

\* the caller calls _run; the call runs up to requests.post and blocks there
Invoke(ticker, days, search_query) ==
  /\ pc \in {"idle", "returned", "raised"}
  /\ pc' = "posting"
  /\ args' = [ticker |-> ticker, days |-> days, search_query |-> search_query]
  /\ request' = http_request(serper_api_key, ticker, search_query)
  /\ response' = NoResponse
  /\ news_items' = NoNews
  /\ result' = NoResult
  /\ last' = NoLast
  /\ posts' = 1
  /\ twin' = [twin EXCEPT
               !.request = finance_http_request(twin.serper_api_key, ticker, search_query),
               !.news_items = NoNews,
               !.result = NoResult]
  /\ UNCHANGED <<serper_api_key, lexicon, today, pureVars, parVars, batchVars>>

\* the caller, whose call returned after the fetch had failed (the error is
\* logged), makes the same call again and compares the two reports
Repeat ==
  /\ pc = "returned"
  /\ try_fetch(response).raised
  /\ pc' = "posting"
  /\ request' = http_request(serper_api_key, args.ticker, args.search_query)
  /\ last' = [seen |-> TRUE, result |-> result]
  /\ response' = NoResponse
  /\ news_items' = NoNews
  /\ result' = NoResult
  /\ posts' = 1
  /\ twin' = [twin EXCEPT
               !.request = finance_http_request(twin.serper_api_key, args.ticker,
                                                args.search_query),
               !.news_items = NoNews,
               !.result = NoResult]
  /\ UNCHANGED <<serper_api_key, lexicon, today, args, pureVars, parVars, batchVars>>

\* requests.post comes back: a response arrives or the transport raises
Respond(outcome) ==
  /\ pc = "posting"
  /\ pc' = "responded"
  /\ response' = outcome
  /\ UNCHANGED <<serper_api_key, lexicon, today, args, request, news_items, result, last,
                 posts, twin, pureVars, parVars, batchVars>>

\* the rest of the call, with the request sent once more when the fetch failed
FinishRetrying ==
  /\ pc = "responded"
  /\ news_items' = fetch_stock_news(args.ticker, args.search_query, response)
  /\ result' = run(args.ticker, args.days, args.search_query, news_items', today)
  /\ pc' = IF result'.kind = "return" THEN "returned" ELSE "raised"
  /\ posts' = IF try_fetch(response).raised THEN posts + 1 ELSE posts
  /\ \E fetched \in {finance_fetch_stock_news(args.ticker, args.search_query, response)} :
       twin' = [twin EXCEPT
                  !.news_items = fetched,
                  !.result = finance_run(args.ticker, args.days, args.search_query,
                                         fetched, today)]
  /\ UNCHANGED <<serper_api_key, lexicon, today, args, request, response, last,
                 pureVars, parVars, batchVars>>

\* the rest of fetch_stock_news and of _run, up to its return or its exception
Finish ==
  /\ pc = "responded"
  /\ news_items' = fetch_stock_news(args.ticker, args.search_query, response)
  /\ result' = run(args.ticker, args.days, args.search_query, news_items', today)
  /\ pc' = IF result'.kind = "return" THEN "returned" ELSE "raised"
  /\ \E fetched \in {finance_fetch_stock_news(args.ticker, args.search_query, response)} :
       twin' = [twin EXCEPT
                  !.news_items = fetched,
                  !.result = finance_run(args.ticker, args.days, args.search_query,
                                         fetched, today)]
  /\ UNCHANGED <<serper_api_key, lexicon, today, args, request, response, last, posts,
                 pureVars, parVars, batchVars>>

\* midnight passes
Tick ==
  /\ today < ClockStart + MaxTicks
  /\ today' = today + 1
  /\ UNCHANGED <<serper_api_key, lexicon, pc, args, request, response, news_items, result,
                 last, posts, twin, pureVars, parVars, batchVars>>

Next ==
  \/ \E ticker \in Tickers, days \in DaysValues, search_query \in Queries :
       Invoke(ticker, days, search_query)
  \/ Repeat
  \/ \E outcome \in Outcomes(serper_api_key) : Respond(outcome)
  \/ Finish
  \/ Tick

Spec == Init /\ [][Next]_vars

\* once requests.post has come back the interpreter runs the call to its end;
\* nothing obliges the search API to answer
LiveSpec == Init /\ [][Next]_vars /\ WF_vars(Finish)

---------------------------------------------------------------------------
(* The pure functions, applied to inputs drawn at the start *)

PureTickers == {"AAPL", "MSFT", "GOOGL", "GOOG", "V", "NFLX", "ZZZZ"}

PureQueries ==
  {None, Str(""), Str("CEO reputation"), Str("product reviews"),
   Str("Social media buzz"), Str("LEADERSHIP changes"), Str("new Product by the CEO"),
   Str("social leadership"), Str("Social Products"), Str("ESG"), Str("oceans")}

\* sentiment scores in [-1, 1], in thousandths
PureScores == -1000..1000

\* digests (modulo 105000), around the periods of the moduli 20, 7, 30, 5000
PureHashes == (0..41) \cup {4999, 5000, 5001, 104999}

\* polarities the estimator may give, in [-1, 1]
PurePolarities == {50 * k : k \in -20..20}

PureDays == {-7, 0, 1, 7, 30}

PureNewsCounts == 0..12

\* a method that hashes its arguments is called with a text whose digest is
\* hash_value (and whose polarity is sentiment)
PureCalls ==
  {[fn |-> "get_fallback_news_data", ticker |-> t, search_query |-> q] :
     t \in PureTickers, q \in PureQueries}
  \cup {[fn |-> "get_deterministic_analyst_ratings", sentiment_score |-> x] :
          x \in PureScores}
  \cup {[fn |-> "get_deterministic_sentiment", sentiment |-> x, hash_value |-> h] :
          x \in PurePolarities, h \in PureHashes}
  \cup {[fn |-> "get_deterministic_date", hash_value |-> h, days |-> d, now |-> n] :
          h \in PureHashes, d \in PureDays, n \in {ClockStart, ClockStart + 1}}
  \cup {[fn |-> "get_deterministic_social_media_mentions",
          ticker_hash |-> h, news_count |-> n] :
          h \in PureHashes, n \in PureNewsCounts}
  \cup {[fn |-> "company_lookup", ticker |-> t] : t \in PureTickers}

PureInit ==
  /\ serper_api_key = None
  /\ twin = NoTwin
  /\ posts = 0
  /\ ParIdle
  /\ BatchIdle
  /\ lexicon = NoLexicon
  /\ today = ClockStart
  /\ pc = "idle"
  /\ args = NoArgs
  /\ request = NoRequest
  /\ response = NoResponse
  /\ news_items = NoNews
  /\ result = NoResult
  /\ last = NoLast
  /\ call \in PureCalls
  /\ ret = NoRet

Returned(v) == [done |-> TRUE, value |-> v]

ApplyFallbackNews ==
  /\ call.fn = "get_fallback_news_data"
  /\ ~ret.done
  /\ ret' = Returned(List(get_fallback_news_data(call.ticker, call.search_query)))
  /\ UNCHANGED <<toolVars, call, parVars, batchVars>>

ApplyAnalystRatings ==
  /\ call.fn = "get_deterministic_analyst_ratings"
  /\ ~ret.done
  /\ ret' = Returned(get_deterministic_analyst_ratings(call.sentiment_score))
  /\ UNCHANGED <<toolVars, call, parVars, batchVars>>

ApplySentiment ==
  /\ call.fn = "get_deterministic_sentiment"
  /\ ~ret.done
  /\ ret' = Returned(clamp_sentiment(call.sentiment, call.hash_value))
  /\ UNCHANGED <<toolVars, call, parVars, batchVars>>

\* hash_value % days raises when days = 0
ApplyDate ==
  /\ call.fn = "get_deterministic_date"
  /\ ~ret.done
  /\ ret' = IF call.days = 0
              THEN [done |-> TRUE, exc |-> "ZeroDivisionError"]
              ELSE Returned(strftime(call.now - hash_days_back(call.hash_value, call.days)))
  /\ UNCHANGED <<toolVars, call, parVars, batchVars>>

ApplyMentions ==
  /\ call.fn = "get_deterministic_social_media_mentions"
  /\ ~ret.done
  /\ ret' = Returned(mentions_from_hash(call.ticker_hash, call.news_count))
  /\ UNCHANGED <<toolVars, call, parVars, batchVars>>

\* the two lookups of a ticker: get_company_name_for_ticker and the
\* company_info lookup of get_fallback_news_data
ApplyLookup ==
  /\ call.fn = "company_lookup"
  /\ ~ret.done
  /\ ret' = Returned([name |-> get_company_name_for_ticker(call.ticker),
                      fallback_name |-> fallback_company_name(call.ticker),
                      industry |-> fallback_industry(call.ticker)])
  /\ UNCHANGED <<toolVars, call, parVars, batchVars>>

PureNext ==
  \/ ApplyFallbackNews
  \/ ApplyAnalystRatings
  \/ ApplySentiment
  \/ ApplyDate
  \/ ApplyMentions
  \/ ApplyLookup

PureSpec == PureInit /\ [][PureNext]_vars

\* the search API answered 200 with a JSON object that holds no news entry
\* and no organic entry with a snippet
EmptyAnswer(outcome) ==
  /\ outcome.kind = "response"
  /\ outcome.status = 200
  /\ outcome.body.json
  /\ outcome.body.data.type = "dict"
  /\ LET data == outcome.body.data.fields
     IN  /\ "news" \in DOMAIN data => data["news"] = List(<<>>)
         /\ "organic" \in DOMAIN data =>
              /\ data["organic"].type = "list"
              /\ \A i \in DOMAIN data["organic"].items :
                   ~HasSnippet(data["organic"].items[i])

---------------------------------------------------------------------------
(* Concurrent calls of _run on one tool instance *)

\* how many calls run at the same time
MaxCalls == 2
CallIds == 1..MaxCalls

\* the ticker each caller asks about
ParTickers == <<"AAPL", "GOOGL", "ZZZZ">>

ParOutcomes(api_key) ==
  IF Truthy(api_key)
    THEN {ConnectionError,
          HttpResponse(200, Json(Dict([news |-> List(<<NewsA, NewsB>>)]))),
          HttpResponse(200, Json(Dict([searchParameters |-> StrVal("search")])))}
    ELSE FailedResponses

NoFrame ==
  [pc |-> "idle", ticker |-> "", days |-> 0, search_query |-> None,
   request |-> NoRequest, response |-> NoResponse, news_items |-> NoNews,
   result |-> NoResult]

NoCallRecord ==
  [started |-> FALSE, ticker |-> "", days |-> 0, search_query |-> None,
   outcome |-> NoResponse]

\* the intermediate values of a call kept in attributes of the instance
local_frame_on_instance(c) == 1

\* ticker, search_query, news_items, processed_news, total_sentiment_score
\* and the rest are parameters and locals of _run and of the methods it
\* calls: each call has its own; no attribute of self is assigned after
\* __init__
local_frame(c) == c

ParInit ==
  /\ \E given \in ApiKeys, environ \in EnvKeys :
       serper_api_key = init_serper_api_key(given, environ)
  /\ lexicon \in Lexicons
  /\ today = ClockStart
  /\ pc = "idle"
  /\ args = NoArgs
  /\ request = NoRequest
  /\ response = NoResponse
  /\ news_items = NoNews
  /\ result = NoResult
  /\ last = NoLast
  /\ posts = 0
  /\ twin = NoTwin
  /\ call = NoCall
  /\ ret = NoRet
  /\ frames = [c \in CallIds |-> NoFrame]
  /\ calls = [c \in CallIds |-> NoCallRecord]
  /\ BatchIdle

\* caller c calls _run; the call runs up to requests.post and blocks there
ParInvoke(c, days, search_query) ==
  /\ ~calls[c].started
  /\ calls' = [calls EXCEPT ![c] =
                 [started |-> TRUE, ticker |-> ParTickers[c], days |-> days,
                  search_query |-> search_query, outcome |-> NoResponse]]
  /\ frames' = [frames EXCEPT ![local_frame(c)] =
                  [pc |-> "posting", ticker |-> ParTickers[c], days |-> days,
                   search_query |-> search_query,
                   request |-> http_request(serper_api_key, ParTickers[c], search_query),
                   response |-> NoResponse, news_items |-> NoNews,
                   result |-> NoResult]]
  /\ UNCHANGED <<toolVars, pureVars, batchVars>>

\* requests.post of call c comes back
ParRespond(c, outcome) ==
  /\ calls[c].started
  /\ calls[c].outcome = NoResponse
  /\ frames[local_frame(c)].pc = "posting"
  /\ calls' = [calls EXCEPT ![c].outcome = outcome]
  /\ frames' = [frames EXCEPT ![local_frame(c)].response = outcome,
                              ![local_frame(c)].pc = "responded"]
  /\ UNCHANGED <<toolVars, pureVars, batchVars>>

\* the rest of fetch_stock_news of call c
ParFetched(c) ==
  /\ calls[c].started
  /\ frames[local_frame(c)].pc = "responded"
  /\ frames' = [frames EXCEPT
                  ![local_frame(c)].news_items =
                     fetch_stock_news(frames[local_frame(c)].ticker,
                                      frames[local_frame(c)].search_query,
                                      frames[local_frame(c)].response),
                  ![local_frame(c)].pc = "fetched"]
  /\ UNCHANGED <<toolVars, pureVars, batchVars, calls>>

\* the rest of _run of call c
ParFinish(c) ==
  /\ calls[c].started
  /\ frames[local_frame(c)].pc = "fetched"
  /\ frames' = [frames EXCEPT
                  ![local_frame(c)].result =
                     run(frames[local_frame(c)].ticker, frames[local_frame(c)].days,
                         frames[local_frame(c)].search_query,
                         frames[local_frame(c)].news_items, today),
                  ![local_frame(c)].pc = "ended"]
  /\ UNCHANGED <<toolVars, pureVars, batchVars, calls>>

ParNext ==
  \/ \E c \in CallIds, search_query \in {None, Str("CEO reputation")} : ParInvoke(c, 7, search_query)
  \/ \E c \in CallIds : \E outcome \in ParOutcomes(serper_api_key) : ParRespond(c, outcome)
  \/ \E c \in CallIds : ParFetched(c)
  \/ \E c \in CallIds : ParFinish(c)

ParSpec == ParInit /\ [][ParNext]_vars

---------------------------------------------------------------------------
(* analyze_us_stocks_async and its process_stock tasks *)

\* asyncio.Semaphore(5) and asyncio.Semaphore(30)
semaphore_av_value == 5
semaphore_finnhub_value == 30

\* the list used when neither index page gives symbols
default_symbols ==
  <<"AAPL", "MSFT", "GOOGL", "AMZN", "META", "TSLA", "NVDA", "JPM", "V", "WMT">>

\* the largest max_stocks the model passes
MaxStocks == 2

\* os.environ.get("ALPHA_VANTAGE_KEY", "2AMJW2DXVLR8KEEO"): the default, or
\* the variable set to the empty string
AvKeys == {Str("2AMJW2DXVLR8KEEO"), Str("")}
FinnhubKeys == {Str("cv4in49r01qn2gaadb80cv4in49r01qn2gaadb8g"), Str("")}

\* what get_yfinance_data gives: a frame of today's bars, or the empty frame
\* (get_yfinance_data_sync swallows every exception)
YfOutcomes == {"frame", "empty"}
\* what get_alphavantage_data gives: the series, or the empty frame after an
\* error or an answer without "Time Series (5min)"
AvOutcomes == {"series", "empty"}
\* what get_finnhub_sentiment gives: {"sentiment": {...}}, {} after an error
\* or a status that is not 200, or a 200 answer {"sentiment": null}
FinnhubOutcomes == {"scores", "none", "null"}

NoneRow == [isNone |-> TRUE]

\* the tuple returned without the try statement: the exception leaves the task
process_stock_result_uncaught(symbol, yf_data, av_data, sentiment_data, now) ==
  IF sentiment_data = "null"
    THEN [kind |-> "raise", analytics |-> NoneRow, raw_data |-> None,
          error |-> Str("AttributeError")]
    ELSE [kind |-> "return",
          analytics |-> [isNone |-> FALSE, Symbol |-> symbol, Date |-> strftime(now),
                         yf |-> yf_data = "frame", av |-> av_data = "series",
                         sentiment |-> sentiment_data = "scores"],
          raw_data |-> Str(""),
          error |-> None]

\* process_stock after its last await: calculate_analytics, the combined
\* row, and `return combined_analytics, raw_data_result, None`; an exception
\* (`None.get` when the answer's "sentiment" is null) goes to
\* `except Exception as e: return None, None, str(e)`
process_stock_result(symbol, yf_data, av_data, sentiment_data, now) ==
  IF sentiment_data = "null"
    THEN [kind |-> "return", analytics |-> NoneRow, raw_data |-> None,
          error |-> Str("'NoneType' object has no attribute 'get'")]
    ELSE [kind |-> "return",
          analytics |-> [isNone |-> FALSE, Symbol |-> symbol, Date |-> strftime(now),
                         yf |-> yf_data = "frame", av |-> av_data = "series",
                         sentiment |-> sentiment_data = "scores"],
          raw_data |-> Str(""),
          error |-> None]

\* a permit given back only when the request succeeded
released_on_success(permits, outcome) ==
  IF outcome \in {"empty", "none"} THEN permits ELSE permits + 1

\* leaving `async with semaphore:` releases the permit, whatever the block
\* returned (the two fetch functions catch their own exceptions)
released(permits, outcome) == permits + 1

NewTask(symbol) ==
  [pc |-> "yfinance", symbol |-> symbol, yf_data |-> "empty", av_data |-> "empty",
   sentiment_data |-> "none", result |-> [kind |-> "none"]]

\* the rows with every awaited result appended
rows_with_every_result(rows, task_result) == Append(rows, task_result.analytics)

\* `if analytics: all_results.append(analytics)`
rows_with(rows, task_result) ==
  IF ~task_result.analytics.isNone THEN Append(rows, task_result.analytics) ELSE rows

BatchInit ==
  /\ serper_api_key = None
  /\ lexicon = NoLexicon
  /\ today = ClockStart
  /\ pc = "idle"
  /\ args = NoArgs
  /\ request = NoRequest
  /\ response = NoResponse
  /\ news_items = NoNews
  /\ result = NoResult
  /\ last = NoLast
  /\ posts = 0
  /\ twin = NoTwin
  /\ call = NoCall
  /\ ret = NoRet
  /\ ParIdle
  /\ av_key \in AvKeys
  /\ finnhub_key \in FinnhubKeys
  /\ semaphore_av = semaphore_av_value
  /\ semaphore_finnhub = semaphore_finnhub_value
  /\ \E max_stocks \in 1..MaxStocks : symbols = SubSeq(default_symbols, 1, max_stocks)
  /\ tasks = <<>>
  /\ all_results = <<>>
  /\ awaited = {}
  /\ batch_pc = "starting"
  /\ load = <<>>

\* tasks = [process_stock(symbol, ...) for symbol in symbols]; as_completed
\* schedules them all
CreateTasks ==
  /\ batch_pc = "starting"
  /\ tasks' = [i \in 1..Len(symbols) |-> NewTask(symbols[i])]
  /\ batch_pc' = "gathering"
  /\ UNCHANGED <<toolVars, pureVars, parVars, av_key, finnhub_key, semaphore_av,
                 semaphore_finnhub, symbols, all_results, awaited, load>>

\* the end of a task: from "finnhub" on when there is no Finnhub key
Ended(task, sentiment_data) ==
  [task EXCEPT !.pc = "done",
               !.sentiment_data = sentiment_data,
               !.result = process_stock_result(task.symbol, task.yf_data, task.av_data,
                                               sentiment_data, today)]

\* await get_yfinance_data(symbol, executor) returns
YfinanceReturns(i, yf_data) ==
  /\ batch_pc = "gathering"
  /\ tasks[i].pc = "yfinance"
  /\ tasks' = [tasks EXCEPT ![i].yf_data = yf_data, ![i].pc = "alpha_vantage"]
  /\ UNCHANGED <<toolVars, pureVars, parVars, av_key, finnhub_key, semaphore_av,
                 semaphore_finnhub, symbols, all_results, awaited, batch_pc, load>>

\* `if av_key:` is false: the Alpha Vantage block is skipped
AvSkipped(i) ==
  /\ batch_pc = "gathering"
  /\ tasks[i].pc = "alpha_vantage"
  /\ ~Truthy(av_key)
  /\ tasks' = [tasks EXCEPT ![i].pc = "finnhub"]
  /\ UNCHANGED <<toolVars, pureVars, parVars, av_key, finnhub_key, semaphore_av,
                 semaphore_finnhub, symbols, all_results, awaited, batch_pc, load>>

\* `async with semaphore_av:` acquires a permit (the task waits while there
\* is none), and get_alphavantage_data sends its request
AvAcquired(i) ==
  /\ batch_pc = "gathering"
  /\ tasks[i].pc = "alpha_vantage"
  /\ Truthy(av_key)
  /\ semaphore_av > 0
  /\ semaphore_av' = semaphore_av - 1
  /\ tasks' = [tasks EXCEPT ![i].pc = "av_request"]
  /\ UNCHANGED <<toolVars, pureVars, parVars, av_key, finnhub_key, semaphore_finnhub,
                 symbols, all_results, awaited, batch_pc, load>>

\* get_alphavantage_data returns (its own try statement turns every error
\* into the empty frame), and leaving the `async with` releases the permit
AvReturns(i, av_data) ==
  /\ batch_pc = "gathering"
  /\ tasks[i].pc = "av_request"
  /\ semaphore_av' = released(semaphore_av, av_data)
  /\ tasks' = [tasks EXCEPT ![i].av_data = av_data, ![i].pc = "finnhub"]
  /\ UNCHANGED <<toolVars, pureVars, parVars, av_key, finnhub_key, semaphore_finnhub,
                 symbols, all_results, awaited, batch_pc, load>>

\* `if finnhub_key:` is false: the task runs to its return
FinnhubSkipped(i) ==
  /\ batch_pc = "gathering"
  /\ tasks[i].pc = "finnhub"
  /\ ~Truthy(finnhub_key)
  /\ tasks' = [tasks EXCEPT ![i] = Ended(tasks[i], "none")]
  /\ UNCHANGED <<toolVars, pureVars, parVars, av_key, finnhub_key, semaphore_av,
                 semaphore_finnhub, symbols, all_results, awaited, batch_pc, load>>

\* `async with semaphore_finnhub:` acquires a permit and
\* get_finnhub_sentiment sends its request
FinnhubAcquired(i) ==
  /\ batch_pc = "gathering"
  /\ tasks[i].pc = "finnhub"
  /\ Truthy(finnhub_key)
  /\ semaphore_finnhub > 0
  /\ semaphore_finnhub' = semaphore_finnhub - 1
  /\ tasks' = [tasks EXCEPT ![i].pc = "finnhub_request"]
  /\ UNCHANGED <<toolVars, pureVars, parVars, av_key, finnhub_key, semaphore_av,
                 symbols, all_results, awaited, batch_pc, load>>

\* get_finnhub_sentiment returns, the permit is released, and the task runs
\* to its return without another await
FinnhubReturns(i, sentiment_data) ==
  /\ batch_pc = "gathering"
  /\ tasks[i].pc = "finnhub_request"
  /\ semaphore_finnhub' = released(semaphore_finnhub, sentiment_data)
  /\ tasks' = [tasks EXCEPT ![i] = Ended(tasks[i], sentiment_data)]
  /\ UNCHANGED <<toolVars, pureVars, parVars, av_key, finnhub_key, semaphore_av,
                 symbols, all_results, awaited, batch_pc, load>>

\* `analytics, stock_raw_data, error = await future` for a task that has
\* ended; an exception of the task would leave analyze_us_stocks_async here
Collect(i) ==
  /\ batch_pc = "gathering"
  /\ tasks[i].pc = "done"
  /\ i \notin awaited
  /\ awaited' = awaited \cup {i}
  /\ IF tasks[i].result.kind = "raise"
       THEN /\ batch_pc' = "aborted"
            /\ UNCHANGED all_results
       ELSE /\ all_results' = rows_with(all_results, tasks[i].result)
            /\ UNCHANGED batch_pc
  /\ UNCHANGED <<toolVars, pureVars, parVars, av_key, finnhub_key, semaphore_av,
                 semaphore_finnhub, symbols, tasks, load>>

\* as_completed is exhausted: the rows become the data frame that is saved
\* and returned
SaveResults ==
  /\ batch_pc = "gathering"
  /\ awaited = DOMAIN tasks
  /\ batch_pc' = "saved"
  /\ UNCHANGED <<toolVars, pureVars, parVars, av_key, finnhub_key, semaphore_av,
                 semaphore_finnhub, symbols, tasks, all_results, awaited, load>>

BatchNext ==
  \/ CreateTasks
  \/ \E i \in DOMAIN tasks, yf_data \in YfOutcomes : YfinanceReturns(i, yf_data)
  \/ \E i \in DOMAIN tasks : AvSkipped(i)
  \/ \E i \in DOMAIN tasks : AvAcquired(i)
  \/ \E i \in DOMAIN tasks, av_data \in AvOutcomes : AvReturns(i, av_data)
  \/ \E i \in DOMAIN tasks : FinnhubSkipped(i)
  \/ \E i \in DOMAIN tasks : FinnhubAcquired(i)
  \/ \E i \in DOMAIN tasks, sentiment_data \in FinnhubOutcomes : FinnhubReturns(i, sentiment_data)
  \/ \E i \in DOMAIN tasks : Collect(i)
  \/ SaveResults

BatchSpec == BatchInit /\ [][BatchNext]_vars

---------------------------------------------------------------------------
(* The batch at full size: the tasks counted by position *)

\* how many symbols the batch has (the index pages list some hundreds)
LoadTasks == 31

\* one task moves from one position to another
Moved(counts, from, to) ==
  [counts EXCEPT ![from] = counts[from] - 1, ![to] = counts[to] + 1]

LoadInit ==
  /\ serper_api_key = None
  /\ lexicon = NoLexicon
  /\ today = ClockStart
  /\ pc = "idle"
  /\ args = NoArgs
  /\ request = NoRequest
  /\ response = NoResponse
  /\ news_items = NoNews
  /\ result = NoResult
  /\ last = NoLast
  /\ posts = 0
  /\ twin = NoTwin
  /\ call = NoCall
  /\ ret = NoRet
  /\ ParIdle
  /\ av_key \in AvKeys
  /\ finnhub_key \in FinnhubKeys
  /\ semaphore_av = semaphore_av_value
  /\ semaphore_finnhub = semaphore_finnhub_value
  /\ symbols = <<>>
  /\ tasks = <<>>
  /\ all_results = <<>>
  /\ awaited = {}
  /\ batch_pc = "gathering"
  /\ load = [p \in {"yfinance", "alpha_vantage", "av_request", "finnhub",
                    "finnhub_request", "done"} |->
               IF p = "yfinance" THEN LoadTasks ELSE 0]

\* await get_yfinance_data(symbol, executor) returns in some task
LoadYfinanceReturns(yf_data) ==
  /\ load["yfinance"] > 0
  /\ load' = Moved(load, "yfinance", "alpha_vantage")
  /\ UNCHANGED <<toolVars, pureVars, parVars, av_key, finnhub_key, semaphore_av,
                 semaphore_finnhub, symbols, tasks, all_results, awaited, batch_pc>>

\* `if av_key:` is false
LoadAvSkipped ==
  /\ load["alpha_vantage"] > 0
  /\ ~Truthy(av_key)
  /\ load' = Moved(load, "alpha_vantage", "finnhub")
  /\ UNCHANGED <<toolVars, pureVars, parVars, av_key, finnhub_key, semaphore_av,
                 semaphore_finnhub, symbols, tasks, all_results, awaited, batch_pc>>

\* `async with semaphore_av:` acquires a permit in some task
LoadAvAcquired ==
  /\ load["alpha_vantage"] > 0
  /\ Truthy(av_key)
  /\ semaphore_av > 0
  /\ semaphore_av' = semaphore_av - 1
  /\ load' = Moved(load, "alpha_vantage", "av_request")
  /\ UNCHANGED <<toolVars, pureVars, parVars, av_key, finnhub_key, semaphore_finnhub,
                 symbols, tasks, all_results, awaited, batch_pc>>

\* get_alphavantage_data returns in some task and the permit is released
LoadAvReturns(av_data) ==
  /\ load["av_request"] > 0
  /\ semaphore_av' = released(semaphore_av, av_data)
  /\ load' = Moved(load, "av_request", "finnhub")
  /\ UNCHANGED <<toolVars, pureVars, parVars, av_key, finnhub_key, semaphore_finnhub,
                 symbols, tasks, all_results, awaited, batch_pc>>

\* `if finnhub_key:` is false: the task runs to its return
LoadFinnhubSkipped ==
  /\ load["finnhub"] > 0
  /\ ~Truthy(finnhub_key)
  /\ load' = Moved(load, "finnhub", "done")
  /\ UNCHANGED <<toolVars, pureVars, parVars, av_key, finnhub_key, semaphore_av,
                 semaphore_finnhub, symbols, tasks, all_results, awaited, batch_pc>>

\* `async with semaphore_finnhub:` acquires a permit in some task
LoadFinnhubAcquired ==
  /\ load["finnhub"] > 0
  /\ Truthy(finnhub_key)
  /\ semaphore_finnhub > 0
  /\ semaphore_finnhub' = semaphore_finnhub - 1
  /\ load' = Moved(load, "finnhub", "finnhub_request")
  /\ UNCHANGED <<toolVars, pureVars, parVars, av_key, finnhub_key, semaphore_av,
                 symbols, tasks, all_results, awaited, batch_pc>>

\* get_finnhub_sentiment returns in some task, the permit is released and the
\* task runs to its return
LoadFinnhubReturns(sentiment_data) ==
  /\ load["finnhub_request"] > 0
  /\ semaphore_finnhub' = released(semaphore_finnhub, sentiment_data)
  /\ load' = Moved(load, "finnhub_request", "done")
  /\ UNCHANGED <<toolVars, pureVars, parVars, av_key, finnhub_key, semaphore_av,
                 symbols, tasks, all_results, awaited, batch_pc>>

LoadNext ==
  \/ \E yf_data \in YfOutcomes : LoadYfinanceReturns(yf_data)
  \/ LoadAvSkipped
  \/ LoadAvAcquired
  \/ \E av_data \in AvOutcomes : LoadAvReturns(av_data)
  \/ LoadFinnhubSkipped
  \/ LoadFinnhubAcquired
  \/ \E sentiment_data \in FinnhubOutcomes : LoadFinnhubReturns(sentiment_data)

\* the event loop runs a task that can run, and every request comes back (the
\* session's default timeout ends it after five minutes at the latest)
LoadSpec == LoadInit /\ [][LoadNext]_vars /\ WF_vars(LoadNext)

---------------------------------------------------------------------------
(* Properties of the tool, one group per claim *)

\* C1: every call of _run returns a dict with the nine report fields and
\* never raises, whatever the ticker, the days, the query and the outcome of
\* the fetch
C1_RunAlwaysReturnsReport ==
  /\ pc # "raised"
  /\ pc = "returned" =>
       /\ result.kind = "return"
       /\ DOMAIN result.value =
            {"ticker", "company_name", "search_context", "overall_sentiment_score",
             "sentiment_label", "news_count", "social_media_mentions",
             "analyst_ratings", "news_items"}

\* C2: whenever the request fails (transport error, status outside 2xx, body
\* that is not JSON or not a dict whose "news" / "organic" are lists of
\* dicts, no API key) fetch_stock_news returns exactly
\* get_fallback_news_data(ticker, search_query)
C2_FailedFetchGivesFallback ==
  LET ListOfDicts(v) ==
        v.type = "list" /\ \A i \in DOMAIN v.items : v.items[i].type = "dict"
      ExpectedShape(data) ==
        /\ data.type = "dict"
        /\ \A k \in {"news", "organic"} \cap DOMAIN data.fields :
             ListOfDicts(data.fields[k])
      Failed ==
        \/ ~Truthy(serper_api_key)
        \/ response.kind # "response"
        \/ response.status \notin 200..299
        \/ ~response.body.json
        \/ ~ExpectedShape(response.body.data)
  IN  (pc \in {"returned", "raised"} /\ Failed) =>
        news_items = List(get_fallback_news_data(args.ticker, args.search_query))

\* C3: two calls with the same arguments, both made while the fetch fails,
\* return identical reports, dates included, whenever the calls are made
C3_RepeatedCallSameReport ==
  (pc = "returned" /\ last.seen /\ try_fetch(response).raised) =>
    result = last.result

\* C4: a call that has posted its request eventually returns or raises, even
\* if the search API never answers
C4_CallEventuallyEnds ==
  (pc = "posting") ~> (pc \in {"returned", "raised"})

\* C5: get_fallback_news_data returns exactly 5 items, each a dict with
\* exactly the fields title, snippet, source and link
C5_FallbackFiveItems ==
  (ret.done /\ call.fn = "get_fallback_news_data") =>
    /\ ret.value.type = "list"
    /\ Len(ret.value.items) = 5
    /\ \A i \in 1..Len(ret.value.items) :
         /\ ret.value.items[i].type = "dict"
         /\ DOMAIN ret.value.items[i].fields = {"title", "snippet", "source", "link"}

\* C5 happens: the fallback has answered for a ticker outside its table and
\* no query, with five items
C5_Witness ==
  /\ ret.done
  /\ call.fn = "get_fallback_news_data"
  /\ call.ticker = "ZZZZ"
  /\ call.search_query = None
  /\ Len(ret.value.items) = 5

\* C6: the headline set is the product set if the lowercased query contains
\* "product", else the leadership set if it contains "ceo" or "leadership",
\* else the social set if it contains "social", else the generic financial
\* set, which an absent or empty query also gets; a set is told by the
\* phrasing of its first and last headlines
C6_TemplateByKeywordOrder ==
  LET claimed(q) ==
        IF q.isNone \/ q.text = "" THEN "financial"
        ELSE IF Contains(Lower(q.text), "product") THEN "product"
        ELSE IF Contains(Lower(q.text), "ceo") \/ Contains(Lower(q.text), "leadership")
          THEN "leadership"
        ELSE IF Contains(Lower(q.text), "social") THEN "social"
        ELSE "financial"
      phrasing ==
        [product |-> <<"Launches New Product Line", "Product Portfolio Expands">>,
         leadership |-> <<"CEO Outlines Vision", "Leadership Strategy at">>,
         social |-> <<"Trending on Social Media", "Social Media Influencers Praise">>,
         financial |-> <<"Reports Quarterly Earnings", "Latest Strategic Announcements">>]
      title(i) == ret.value.items[i].fields.title
  IN  (ret.done /\ call.fn = "get_fallback_news_data") =>
        /\ Contains(title(1), phrasing[claimed(call.search_query)][1])
        /\ Contains(title(5), phrasing[claimed(call.search_query)][2])

\* C6 happens: a query naming both a product and the CEO, in mixed case, got
\* the product set
C6_Witness ==
  /\ ret.done
  /\ call.fn = "get_fallback_news_data"
  /\ call.search_query = Str("new Product by the CEO")
  /\ Contains(ret.value.items[1].fields.title, "Launches New Product Line")

\* C7 as stated: each of the five fallback headlines contains the company
\* name, the ticker and the industry
C7_HeadlinesNameTickerIndustry ==
  (ret.done /\ call.fn = "get_fallback_news_data") =>
    \A i \in 1..Len(ret.value.items) :
      /\ Contains(ret.value.items[i].fields.title, fallback_company_name(call.ticker))
      /\ Contains(ret.value.items[i].fields.title, call.ticker)
      /\ Contains(ret.value.items[i].fields.title, fallback_industry(call.ticker))

\* C7 amended: each of the five fallback headlines contains the company name
\* of the generator's own table and the ticker in parentheses; the industry
\* is in the fifth headline of the product set, the fourth of the social set
\* and the third of the generic set
C7_HeadlinesNameTicker ==
  LET title(i) == ret.value.items[i].fields.title
      industry == fallback_industry(call.ticker)
  IN  (ret.done /\ call.fn = "get_fallback_news_data") =>
        /\ \A i \in 1..Len(ret.value.items) :
             /\ Contains(title(i), fallback_company_name(call.ticker))
             /\ Contains(title(i), "(" \o call.ticker \o ")")
        /\ Contains(title(1), "Launches New Product Line") => Contains(title(5), industry)
        /\ Contains(title(1), "Trending on Social Media") => Contains(title(4), industry)
        /\ Contains(title(1), "Reports Quarterly Earnings") => Contains(title(3), industry)

\* C7 happens: the leadership set was generated for a ticker of the table
\* and none of its headlines has the industry
C7_Witness ==
  /\ ret.done
  /\ call.fn = "get_fallback_news_data"
  /\ call.ticker = "MSFT"
  /\ Contains(ret.value.items[1].fields.title, "CEO Outlines Vision")
  /\ \A i \in 1..Len(ret.value.items) :
       ~Contains(ret.value.items[i].fields.title, fallback_industry(call.ticker))

\* C8: when the fetch fails, the company name in every headline and snippet
\* of the report is the report's company_name, the name
\* get_company_name_for_ticker gives, which is also the name in the search
\* query
C8_FallbackUsesDirectoryName ==
  (pc = "returned" /\ try_fetch(response).raised) =>
    /\ result.value.company_name = get_company_name_for_ticker(args.ticker)
    /\ Truthy(args.search_query) => Contains(request.q, result.value.company_name)
    /\ \A i \in 1..Len(result.value.news_items) :
         /\ Contains(result.value.news_items[i].headline, result.value.company_name)
         /\ Contains(result.value.news_items[i].snippet, result.value.company_name)

\* C9: for every score in [-1, 1], with scaled = floor((score + 1) * 50),
\* buy = floor(25 * scaled / 100), sell = floor(25 * (100 - scaled) / 100)
\* and hold = floor(25 * (1 - |score| / 2)); score 0.0 gives 12 / 25 / 12
C9_RatingsFollowFormula ==
  LET score == call.sentiment_score
      scaled == ((score + 1000) * 50) \div 1000
      magnitude == IF score < 0 THEN -score ELSE score
  IN  (ret.done /\ call.fn = "get_deterministic_analyst_ratings") =>
        /\ ret.value.buy = (25 * scaled) \div 100
        /\ ret.value.sell = (25 * (100 - scaled)) \div 100
        /\ ret.value.hold = (25 * (2000 - magnitude)) \div 2000
        /\ score = 0 => ret.value = [buy |-> 12, hold |-> 25, sell |-> 12]

\* C10: buy, hold and sell are non-negative and 22 < buy + hold + sell <= 25
C10_RatingsSumNearTotal ==
  (ret.done /\ call.fn = "get_deterministic_analyst_ratings") =>
    /\ ret.value.buy >= 0
    /\ ret.value.hold >= 0
    /\ ret.value.sell >= 0
    /\ ret.value.buy + ret.value.hold + ret.value.sell > 22
    /\ ret.value.buy + ret.value.hold + ret.value.sell <= 25

\* C11: the report's sentiment_label is "Bullish" exactly when
\* overall_sentiment_score > 0.3, "Bearish" exactly when it is < -0.3 and
\* "Neutral" otherwise, so that exactly 0.3 and exactly -0.3 give "Neutral"
C11_LabelByThresholds ==
  pc = "returned" =>
    /\ result.value.sentiment_label = "Bullish"
         <=> result.value.overall_sentiment_score > 300
    /\ result.value.sentiment_label = "Bearish"
         <=> result.value.overall_sentiment_score < -300
    /\ result.value.sentiment_label = "Neutral"
         <=> (result.value.overall_sentiment_score >= -300
              /\ result.value.overall_sentiment_score <= 300)

\* C11 happens: a report whose overall score is exactly 0.3 is "Neutral"
C11_Witness ==
  /\ pc = "returned"
  /\ result.value.overall_sentiment_score = 300
  /\ result.value.sentiment_label = "Neutral"

\* C12: when at least one news item is scored, overall_sentiment_score is
\* the arithmetic mean of the scores of the scored items rounded to 2
\* decimals: a whole number of hundredths within half a hundredth of the mean
C12_OverallIsRoundedMean ==
  LET scored == first_ten(news_items)
      scores == [i \in 1..Len(scored) |-> item_score(scored[i], args.ticker)]
      n == Len(scored)
      gap == result.value.overall_sentiment_score * n - total_sentiment(scores)
  IN  (pc = "returned" /\ n > 0) =>
        /\ result.value.overall_sentiment_score % 10 = 0
        /\ gap <= 5 * n
        /\ -gap <= 5 * n

\* C12 happens: a report over two items scored differently, whose overall
\* score is neither item's score
C12_Witness ==
  /\ pc = "returned"
  /\ result.value.news_count = 2
  /\ result.value.news_items[1].sentiment_score # result.value.news_items[2].sentiment_score
  /\ result.value.overall_sentiment_score # result.value.news_items[1].sentiment_score
  /\ result.value.overall_sentiment_score # result.value.news_items[2].sentiment_score

\* C13: the report's news_items is the scored image of the first min(n, 10)
\* fetched items in their order, news_count is its length, and the report is
\* the one the first ten items alone give: items beyond the tenth influence
\* no field
C13_FirstTenInOrder ==
  (pc = "returned" /\ news_items.type = "list") =>
    LET fetched == news_items.items
        n == IF Len(fetched) < 10 THEN Len(fetched) ELSE 10
    IN  /\ Len(result.value.news_items) = n
        /\ result.value.news_count = Len(result.value.news_items)
        /\ \A i \in 1..n :
             /\ result.value.news_items[i].headline = Get(fetched[i], "title", "No title")
             /\ result.value.news_items[i].snippet =
                  Get(fetched[i], "snippet", "No content available")
             /\ result.value.news_items[i].sentiment_score =
                  round2(item_score(fetched[i], args.ticker), 1)
        /\ \E day \in ClockStart..today :
             result = run(args.ticker, args.days, args.search_query,
                          List(SubSeq(fetched, 1, n)), day)

\* C13 happens: twelve items were fetched and the report has ten
C13_Witness ==
  /\ pc = "returned"
  /\ Len(news_items.items) = 12
  /\ result.value.news_count = 10
  /\ result.value.news_items[10].headline = "Wire 10 promising pilot"

\* C14: the hash-based adjustment added in get_deterministic_sentiment,
\* (hash mod 20 - 10) / 100, lies in [-0.10, 0.10] for every text and seed:
\* whenever the sum stays inside [-1, 1] the score returned differs from the
\* polarity by the adjustment, which is between -0.10 and 0.10
C14_AdjustmentWithinTenth ==
  (ret.done /\ call.fn = "get_deterministic_sentiment") =>
    /\ hash_adjustment(call.hash_value) >= -100
    /\ hash_adjustment(call.hash_value) <= 100
    /\ (call.sentiment >= -900 /\ call.sentiment <= 900) =>
         /\ ret.value - call.sentiment = hash_adjustment(call.hash_value)
         /\ ret.value - call.sentiment >= -100
         /\ ret.value - call.sentiment <= 100

\* C14 happens: a digest that is a multiple of 20 took a tenth off a polarity
\* of 0.5
C14_Witness ==
  /\ ret.done
  /\ call.fn = "get_deterministic_sentiment"
  /\ call.hash_value = 40
  /\ call.sentiment = 500
  /\ ret.value = 400

\* C15: every sentiment score in a report lies in [-1, 1]: each item's
\* sentiment_score and the overall_sentiment_score, with and without news
C15_ScoresWithinUnit ==
  pc = "returned" =>
    /\ result.value.overall_sentiment_score >= -1000
    /\ result.value.overall_sentiment_score <= 1000
    /\ \A i \in 1..Len(result.value.news_items) :
         /\ result.value.news_items[i].sentiment_score >= -1000
         /\ result.value.news_items[i].sentiment_score <= 1000

\* C15 happens: an item whose polarity plus adjustment is below -1 is
\* reported with the score -1
C15_Witness ==
  /\ pc = "returned"
  /\ \E i \in 1..Len(result.value.news_items) :
       /\ polarity(item_text(news_items.items[i]))
            + adjustment(item_text(news_items.items[i]), args.ticker) < -1000
       /\ result.value.news_items[i].sentiment_score = -1000

\* C16: the number of days get_deterministic_date subtracts from the current
\* date, hash mod days + 1, always lies in [1, days]: the call returns the
\* date of one of the days preceding now
C16_OffsetWithinWindow ==
  (ret.done /\ call.fn = "get_deterministic_date") =>
    /\ "value" \in DOMAIN ret
    /\ \E k \in 1..call.days : ret.value = strftime(call.now - k)

\* C17: get_deterministic_social_media_mentions returns
\* floor(base * max(1, news_count / 2)) with base = hash mod 5000 + 1000 in
\* 1000..5999; the result is at least 1000 and is base when news_count <= 2
C17_MentionsFormula ==
  LET base == (call.ticker_hash % 5000) + 1000
      twice_factor == IF call.news_count > 2 THEN call.news_count ELSE 2
  IN  (ret.done /\ call.fn = "get_deterministic_social_media_mentions") =>
        /\ base >= 1000
        /\ base <= 5999
        /\ 2 * ret.value <= base * twice_factor
        /\ base * twice_factor < 2 * ret.value + 2
        /\ ret.value >= 1000
        /\ call.news_count <= 2 => ret.value = base

\* C17 happens: three news items and an odd base, so that the floor drops
\* a half
C17_Witness ==
  /\ ret.done
  /\ call.fn = "get_deterministic_social_media_mentions"
  /\ call.news_count = 3
  /\ 2 * ret.value + 1 = 3 * ((call.ticker_hash % 5000) + 1000)

\* C18: there is one company table such that every ticker outside it gets
\* the name "<ticker> Corporation" and the industry "Technology", and every
\* ticker in it gets its fixed name and industry from both lookups of the
\* directory; AAPL gets "Apple Inc.", "Technology/Consumer Electronics"
C18_OneCompanyTable ==
  LET name(t) == IF t = call.ticker THEN ret.value.name
                 ELSE get_company_name_for_ticker(t)
      fallback_name(t) == IF t = call.ticker THEN ret.value.fallback_name
                          ELSE fallback_company_name(t)
      industry(t) == IF t = call.ticker THEN ret.value.industry
                     ELSE fallback_industry(t)
      synthetic(t) ==
        /\ name(t) = t \o " Corporation"
        /\ fallback_name(t) = t \o " Corporation"
        /\ industry(t) = "Technology"
      fixed(t) ==
        /\ name(t) = fallback_name(t)
        /\ t \in DOMAIN company_names => name(t) = company_names[t]
        /\ t \in DOMAIN company_info =>
             /\ name(t) = company_info[t].name
             /\ industry(t) = company_info[t].industry
  IN  (ret.done /\ call.fn = "company_lookup") =>
        /\ \E table \in {DOMAIN company_info, DOMAIN company_names,
                         DOMAIN company_info \cup DOMAIN company_names} :
             \A t \in PureTickers : IF t \in table THEN fixed(t) ELSE synthetic(t)
        /\ call.ticker = "AAPL" =>
             /\ ret.value.name = "Apple Inc."
             /\ ret.value.industry = "Technology/Consumer Electronics"

\* C19: fetch_stock_news sends the query "<company name> (<ticker>)
\* <search_query>" when a search_query is given and "<ticker> stock financial
\* news analysis" when none is given (None or the empty string), and always
\* asks for 20 results
C19_QuerySent ==
  pc \in {"posting", "responded", "returned", "raised"} =>
    /\ request.num = 20
    /\ (~args.search_query.isNone /\ args.search_query.text # "") =>
         request.q = get_company_name_for_ticker(args.ticker) \o " (" \o args.ticker
                     \o ") " \o args.search_query.text
    /\ (args.search_query.isNone \/ args.search_query.text = "") =>
         request.q = args.ticker \o " stock financial news analysis"

\* C19 happens: a request for GOOGL with a query is in flight
C19_Witness ==
  /\ pc = "posting"
  /\ args.ticker = "GOOGL"
  /\ request.q = "Alphabet Inc. (Google) (GOOGL) CEO reputation"

\* C20: on a 2xx response whose body is a JSON object, fetch_stock_news
\* returns the "news" list when it is present and non-empty; otherwise, when
\* there is an "organic" list of objects, exactly its entries that have a
\* snippet, in their order; and when "news" and "organic", if present, are
\* lists of objects, what it returns is not the fallback generator's list
C20_SuccessfulFetch ==
  LET data == response.body.data.fields
      has_news == /\ "news" \in DOMAIN data
                  /\ data["news"].type = "list"
                  /\ Len(data["news"].items) > 0
      has_organic == "organic" \in DOMAIN data /\ data["organic"].type = "list"
      with_snippet(item) == "snippet" \in DOMAIN item.fields
      objects(v) == v.type = "list" /\ \A i \in DOMAIN v.items : v.items[i].type = "dict"
  IN  (/\ pc \in {"returned", "raised"}
       /\ response.kind = "response"
       /\ response.status \in 200..299
       /\ response.body.json
       /\ response.body.data.type = "dict") =>
        /\ has_news => news_items = data["news"]
        /\ (~has_news /\ has_organic /\ objects(data["organic"])) =>
             /\ news_items.type = "list"
             /\ news_items.items = SelectSeq(data["organic"].items, with_snippet)
        /\ (\A k \in {"news", "organic"} \cap DOMAIN data : objects(data[k])) =>
             news_items # List(get_fallback_news_data(args.ticker, args.search_query))

\* C20 happens: a payload without "news" gave the two organic entries that
\* have a snippet, in their order, without the one that has none
C20_Witness ==
  /\ pc = "returned"
  /\ response.kind = "response"
  /\ response.body.json
  /\ response.body.data.type = "dict"
  /\ "news" \notin DOMAIN response.body.data.fields
  /\ "organic" \in DOMAIN response.body.data.fields
  /\ Len(response.body.data.fields["organic"].items) = 3
  /\ news_items.items = <<OrganicHit, OrganicLate>>

\* C21: each call of _run issues exactly one HTTP search request: the request
\* is not retried after a failure, and no second request is made for the
\* organic results or for the fallback news
C21_OneRequestPerCall ==
  pc \in {"posting", "responded", "returned", "raised"} => posts = 1

\* C21 happens: a call whose request failed has ended with the fallback news
C21_Witness ==
  /\ pc = "returned"
  /\ response.kind = "ConnectionError"
  /\ news_items = List(get_fallback_news_data(args.ticker, args.search_query))
  /\ posts = 1

\* C22: concurrent calls on one tool instance (different tickers) share no
\* mutable state: in every interleaving, the report of each call that has
\* ended is the report the same call returns when run alone with the same
\* fetch outcome, and no step of any call changes the tool's API key (the
\* company tables are built afresh inside each lookup)
C22_CallsIndependent ==
  /\ [](\A c \in CallIds :
          (calls[c].started /\ frames[c].pc = "ended") =>
            frames[c].result =
              run(calls[c].ticker, calls[c].days, calls[c].search_query,
                  fetch_stock_news(calls[c].ticker, calls[c].search_query,
                                   calls[c].outcome),
                  today))
  /\ [][serper_api_key' = serper_api_key]_vars

\* C22 happens: two calls overlapped (the second was answered before the
\* first) and both ended, one with fetched news and one with the fallback
C22_Witness ==
  /\ frames[1].pc = "ended"
  /\ frames[2].pc = "ended"
  /\ frames[1].result.kind = "return"
  /\ frames[2].result.kind = "return"
  /\ calls[1].outcome = ConnectionError
  /\ calls[2].outcome.kind = "response"
  /\ frames[1].result.value.ticker = "AAPL"
  /\ frames[2].result.value.ticker = "GOOGL"
  /\ frames[2].result.value.news_count = 2

\* C23: the search_context of a report is the search query used to find the
\* news: for every ticker and search_query it is the query string q that
\* fetch_stock_news sent to the search API for that call
C23_ContextIsQuerySent ==
  pc = "returned" => result.value.search_context = request.q

\* C24: in every report each news item's sentiment label agrees with the
\* sentiment_score reported for that item: "positive" exactly when the
\* reported score is above 0.1, "negative" exactly when it is below -0.1,
\* "neutral" otherwise
C24_LabelAgreesWithReportedScore ==
  pc = "returned" =>
    \A i \in DOMAIN result.value.news_items :
      LET item == result.value.news_items[i]
      IN  /\ item.sentiment = "positive" <=> item.sentiment_score > 100
          /\ item.sentiment = "negative" <=> item.sentiment_score < -100
          /\ item.sentiment = "neutral" <=>
               (item.sentiment_score >= -100 /\ item.sentiment_score <= 100)

\* C25: when the fetch succeeds but yields zero items, the call does not use
\* the fallback news: the report has news_count 0 and no news_items, its
\* overall_sentiment_score is get_deterministic_sentiment(ticker, "fallback"),
\* its social_media_mentions is the ticker's base value (digest mod 5000 +
\* 1000), and its sentiment_label and analyst_ratings derive from that score
C25_NoItemsFetched ==
  (pc \in {"returned", "raised"} /\ EmptyAnswer(response)) =>
    LET score == get_deterministic_sentiment(args.ticker, "fallback")
    IN  /\ news_items = List(<<>>)
        /\ pc = "returned"
        /\ result.value.news_count = 0
        /\ result.value.news_items = <<>>
        /\ result.value.overall_sentiment_score = score
        /\ result.value.social_media_mentions = (md5(args.ticker) % 5000) + 1000
        /\ result.value.sentiment_label =
             (IF score > 300 THEN "Bullish"
              ELSE IF score < -300 THEN "Bearish" ELSE "Neutral")
        /\ result.value.analyst_ratings = get_deterministic_analyst_ratings(score)

\* C25 happens: a call with days = 0, whose every scored item would raise,
\* got an answer whose organic entries all lack a snippet, and returned
C25_Witness ==
  /\ pc = "returned"
  /\ EmptyAnswer(response)
  /\ "organic" \in DOMAIN response.body.data.fields
  /\ args.days = 0
  /\ result.value.news_count = 0

C27_RatingsMonotone ==
  (ret.done /\ call.fn = "get_deterministic_analyst_ratings") =>
    /\ ret.value.buy + ret.value.sell \in {24, 25}
    /\ \A s2 \in PureScores :
         call.sentiment_score <= s2 =>
           /\ ret.value.buy <= get_deterministic_analyst_ratings(s2).buy
           /\ ret.value.sell >= get_deterministic_analyst_ratings(s2).sell

\* C27 happens: the ratings of -0.92, where the binary64 product falls short
\* of 4, have been computed: buy is 0 and sell is 24, as for the scores just
\* below it
C27_Witness ==
  /\ ret.done
  /\ call.fn = "get_deterministic_analyst_ratings"
  /\ call.sentiment_score = -920
  /\ ret.value.buy = 0
  /\ ret.value.sell = 24
  /\ get_deterministic_analyst_ratings(-919).buy = 1

C29_SemaphoresBoundAndFree ==
  /\ [](/\ load["av_request"] <= 5
        /\ load["finnhub_request"] <= 30
        /\ semaphore_av + load["av_request"] = 5
        /\ semaphore_finnhub + load["finnhub_request"] = 30)
  /\ <>(load["done"] = LoadTasks)

\* C29 happens: 30 Finnhub requests are in flight, no permit is left, and a
\* task is waiting for one
C29_Witness ==
  /\ load["finnhub_request"] = 30
  /\ semaphore_finnhub = 0
  /\ load["finnhub"] > 0
  /\ Truthy(av_key)

\* C30: a failure while processing one symbol never aborts the batch:
\* process_stock never raises and returns either (analytics, raw_data, None)
\* or (None, None, error); analyze_us_stocks_async awaits every task, and its
\* rows hold exactly one entry for each awaited symbol whose processing
\* succeeded and none for a symbol that failed, in whatever order the tasks
\* complete
C30_FailureKeptLocal ==
  /\ batch_pc # "aborted"
  /\ \A i \in DOMAIN tasks :
       tasks[i].pc = "done" =>
         /\ tasks[i].result.kind = "return"
         /\ \/ /\ ~tasks[i].result.analytics.isNone
               /\ tasks[i].result.raw_data # None
               /\ tasks[i].result.error = None
            \/ /\ tasks[i].result.analytics = NoneRow
               /\ tasks[i].result.raw_data = None
               /\ tasks[i].result.error # None
  /\ batch_pc = "saved" => awaited = 1..Len(symbols)
  /\ \A i \in awaited :
       Cardinality({k \in DOMAIN all_results :
                      ~all_results[k].isNone /\ all_results[k].Symbol = symbols[i]})
         = IF tasks[i].result.error = None THEN 1 ELSE 0
  /\ \A k \in DOMAIN all_results :
       /\ ~all_results[k].isNone
       /\ \E i \in awaited : all_results[k].Symbol = symbols[i]

\* C30 happens: of two symbols the first failed (its Finnhub answer had a
\* null "sentiment") after the second had succeeded, and the batch ended
\* with the one row of the second
C30_Witness ==
  /\ batch_pc = "saved"
  /\ Len(symbols) = 2
  /\ tasks[1].result.error # None
  /\ tasks[2].result.error = None
  /\ Len(all_results) = 1
  /\ all_results[1].Symbol = symbols[2]

====
